---------------------------- MODULE Spec2Model ----------------------------
(***************************************************************************)
(* GE DRI protocol engine (ge-dri-prototype): the framing state machine,   *)
(* the frame encoder, the serial device's frame pull, the record header    *)
(* parser and the decoder dispatch, as state machines over bytes.          *)
(***************************************************************************)
EXTENDS Integers, Sequences, FiniteSets, TLC

VARIABLES
    state,      \* FrameParser.state
    buffer,     \* FrameParser.buffer
    fed,        \* bytes handed to the parser so far (the byte stream)
    events,     \* what process_byte returned so far: frames and errors, in order
    ret,        \* the return value of the latest process_byte call
    cstate,     \* a second FrameParser, driven through process_bytes: its state
    cbuffer,    \* ... and its buffer
    pending,    \* bytes of the stream collected for the next process_bytes call
    cevents,    \* what the process_bytes calls returned so far, in order
    dpc,        \* SerialDevice: "idle", or "read_frame" while a read_frame call loops
    delivered,  \* SerialDevice: the frames returned to the caller so far, in order
    dret,       \* SerialDevice: the return value of the latest finished call
    reads,      \* SerialDevice: the port.read calls made by the latest call so far
    txPayload,  \* the payload handed to create_frame
    txFrame,    \* the bytes create_frame returned
    rxResult,   \* what a fresh parser's process_bytes returned for those bytes
    rtPc,       \* round trip: "payload", "framed", "parsed"
    mpc,        \* main loop: the call it is about to make, or "aborted" after a panic
    frameData,  \* main loop: frame.data, the payload of the frame read_frame returned
    hdr,        \* main loop: what DriHeader::parse returned
    decoded,    \* main loop: what Decoder::decode_frame returned
    outcome,    \* main loop: the arm the turn ended in
    prev,       \* main loop: the turn before this one
    port,       \* SerialDevice.port: the byte strings written, one per write_all
    reqRet,     \* requests: what the latest request call returned
    reqCall,    \* requests: the latest request call and its arguments
    calls,      \* requests: the number of request calls made
    wfData,     \* waveform decoding: the payload of a waveform record
    wfHeader,   \* waveform decoding: what DriHeader::parse returned for it
    wfOut,      \* waveform decoding: what decode_waveforms returned
    wfPc,       \* waveform decoding: "frame", "parsed", "decoded", "rejected"
    svValue,    \* special values: the raw i16 handed to the function
    svFn,       \* special values: the function that was called, "none" before the call
    svOut,      \* special values: what it returned
    bArgs,      \* request builders: the arguments of the call
    bOut,       \* request builders: the bytes returned, <<>> before the call
    phIn,       \* physiological decoding: what the monitor wrote into the subrecord
    phOut,      \* physiological decoding: what decode_physiological returned
    mfIn,       \* frame streams: the frames on the wire and where the parser joins
    mfOut,      \* frame streams: what a fresh parser made of the stream
    sdIn,       \* subrecord slicing: descriptor offsets, data length and index
    sdOut       \* subrecord slicing: what get_subrecord_data returned

(***************************************************************************)
(* Protocol constants.                                                     *)
(***************************************************************************)
FRAME_CHAR == 126

CTRL_CHAR == 125

BIT5 == 32

HEADER_SIZE == 40

MAX_SUBRECORDS == 8

\* the length of a physiological subrecord, 1088 in decode_frame
PHDB_SUBRECORD_SIZE == 1088

(***************************************************************************)
(* Bounds of the model.                                                    *)
(***************************************************************************)
\* longest byte stream fed to the parser, byte by byte
MaxStream == 8

\* longest byte stream cut into chunks for process_bytes
MaxChunked == 7

\* longest payload handed to create_frame
MaxPayload == 3

\* most bytes the serial port receives
MaxWire == 8

\* longest payload of the frame that follows a framing error
MaxResync == 2

\* largest sample count (act_len) written into a frame's data region
MaxActLen == 1

\* longest list of distinct waveform names asked of request_waveforms
MaxNames == 3

\* most request calls made on the device
MaxCalls == 2

\* most port reads followed within one read_frame call
MaxReads == 3

\* largest sample count (act_len) declared by a waveform subrecord
MaxSamples == 2

\* most descriptors in the header of a waveform record
MaxDescriptors == 2

\* most waveform types handed to create_waveform_request
MaxRequested == 9

\* frames in a stream of back-to-back frames
MaxFrames == 3

\* descriptors in a header given to get_subrecord_data
MaxSubrecords == 3

\* the byte values fed: a plain byte, a stuffed delimiter, escape, delimiter
StreamBytes == {1, 94, CTRL_CHAR, FRAME_CHAR}

\* the byte values arriving at the serial port
WireBytes == {1, FRAME_CHAR}

\* the byte values of payloads handed to create_frame (0x7E + 0x7D + 0x83 sums to 0x7E)
PayloadBytes == {1, 131, CTRL_CHAR, FRAME_CHAR}

\* the non-empty payloads handed to create_frame
Payloads == UNION {[1..n -> PayloadBytes] : n \in 1..MaxPayload}

\* the payloads of the frame sent after a framing error
ResyncPayloads == UNION {[1..n -> PayloadBytes] : n \in 1..MaxResync}

(***************************************************************************)
(* u8 arithmetic.                                                          *)
(***************************************************************************)
\* byte | BIT5
OrBit5(byte) == IF (byte \div BIT5) % 2 = 1 THEN byte ELSE byte + BIT5

\* byte & !BIT5
ClearBit5(byte) == IF (byte \div BIT5) % 2 = 1 THEN byte - BIT5 ELSE byte

\* a.wrapping_add(b) on u8
WrappingAdd(a, b) == (a + b) % 256

Front(s) == SubSeq(s, 1, Len(s) - 1)

Last(s) == s[Len(s)]

(***************************************************************************)
(* protocol/checksum.rs                                                    *)
(***************************************************************************)
\* the wrapping sum of data[lo..hi], by halves (wrapping_add is associative)
RECURSIVE checksum_range(_, _, _)
checksum_range(data, lo, hi) ==
    IF lo > hi THEN 0
    ELSE IF lo = hi THEN WrappingAdd(0, data[lo])
    ELSE LET mid == (lo + hi) \div 2
         IN WrappingAdd(checksum_range(data, lo, mid), checksum_range(data, mid + 1, hi))

calculate_checksum(data) == checksum_range(data, 1, Len(data))

\* a validate_checksum that accepts any trailing byte
validate_checksum_unchecked(data) == data # <<>>

validate_checksum(data) ==
    IF data = <<>> THEN FALSE
    ELSE Last(data) = calculate_checksum(Front(data))

(***************************************************************************)
(* protocol/framing.rs: the parser.  A parser value is [state, buffer]; a  *)
(* call returns [parser, result] where result is one of                    *)
(*   [kind |-> "none"], [kind |-> "frame", data, checksum],                *)
(*   [kind |-> "ChecksumError"], [kind |-> "IncompleteFrame"]              *)
(* in the uniform shape made by Res.                                       *)
(***************************************************************************)
Res(kind, data, checksum) == [kind |-> kind, data |-> data, checksum |-> checksum]

NoneRes == Res("none", <<>>, 0)

ErrRes(e) == Res(e, <<>>, 0)

IsErr(r) == r.kind \in {"ChecksumError", "IncompleteFrame"}

\* DriFrame::validate: validate_checksum(complete_data())
DriFrame_validate(data, checksum) == validate_checksum(Append(data, checksum))

\* FrameParser::new
FrameParser_new == [state |-> "WaitingForStart", buffer |-> <<>>]

\* a finalize_frame whose error returns forget to reset the state
finalize_frame_no_reset(p) ==
    IF p.buffer = <<>>
    THEN [parser |-> [state |-> "WaitingForStart", buffer |-> p.buffer],
          result |-> NoneRes]
    ELSE IF Len(p.buffer) < 2
    THEN [parser |-> p, result |-> ErrRes("IncompleteFrame")]
    ELSE LET checksum == Last(p.buffer)
             data == Front(p.buffer)
         IN IF ~DriFrame_validate(data, checksum)
            THEN [parser |-> [state |-> p.state, buffer |-> data],
                  result |-> ErrRes("ChecksumError")]
            ELSE [parser |-> [state |-> "WaitingForStart", buffer |-> data],
                  result |-> Res("frame", data, checksum)]

finalize_frame(p) ==
    IF p.buffer = <<>>
    THEN [parser |-> [state |-> "WaitingForStart", buffer |-> p.buffer],
          result |-> NoneRes]
    ELSE IF Len(p.buffer) < 2
    THEN [parser |-> [state |-> "WaitingForStart", buffer |-> p.buffer],
          result |-> ErrRes("IncompleteFrame")]
    ELSE LET checksum == Last(p.buffer)
             data == Front(p.buffer)
         IN IF ~DriFrame_validate(data, checksum)
            THEN [parser |-> [state |-> "WaitingForStart", buffer |-> data],
                  result |-> ErrRes("ChecksumError")]
            ELSE [parser |-> [state |-> "WaitingForStart", buffer |-> data],
                  result |-> Res("frame", data, checksum)]

\* a process_byte whose opening delimiter leaves the buffer as the last frame left it
process_byte_keeps_buffer(p, byte) ==
    CASE p.state = "WaitingForStart" ->
            IF byte = FRAME_CHAR
            THEN [parser |-> [state |-> "InFrame", buffer |-> p.buffer],
                  result |-> NoneRes]
            ELSE [parser |-> p, result |-> NoneRes]
      [] p.state = "InFrame" ->
            IF byte = FRAME_CHAR THEN finalize_frame(p)
            ELSE IF byte = CTRL_CHAR
            THEN [parser |-> [state |-> "NeedUnstuff", buffer |-> p.buffer],
                  result |-> NoneRes]
            ELSE [parser |-> [state |-> "InFrame", buffer |-> Append(p.buffer, byte)],
                  result |-> NoneRes]
      [] p.state = "NeedUnstuff" ->
            [parser |-> [state |-> "InFrame", buffer |-> Append(p.buffer, OrBit5(byte))],
             result |-> NoneRes]

\* a process_byte in which a delimiter closes the frame even right after an escape
process_byte_delimiter_closes(p, byte) ==
    CASE p.state = "WaitingForStart" ->
            IF byte = FRAME_CHAR
            THEN [parser |-> [state |-> "InFrame", buffer |-> <<>>], result |-> NoneRes]
            ELSE [parser |-> p, result |-> NoneRes]
      [] p.state = "InFrame" ->
            IF byte = FRAME_CHAR THEN finalize_frame(p)
            ELSE IF byte = CTRL_CHAR
            THEN [parser |-> [state |-> "NeedUnstuff", buffer |-> p.buffer],
                  result |-> NoneRes]
            ELSE [parser |-> [state |-> "InFrame", buffer |-> Append(p.buffer, byte)],
                  result |-> NoneRes]
      [] p.state = "NeedUnstuff" ->
            IF byte = FRAME_CHAR THEN finalize_frame(p)
            ELSE [parser |-> [state |-> "InFrame",
                              buffer |-> Append(p.buffer, OrBit5(byte))],
                  result |-> NoneRes]

process_byte(p, byte) ==
    CASE p.state = "WaitingForStart" ->
            IF byte = FRAME_CHAR
            THEN [parser |-> [state |-> "InFrame", buffer |-> <<>>], result |-> NoneRes]
            ELSE [parser |-> p, result |-> NoneRes]
      [] p.state = "InFrame" ->
            IF byte = FRAME_CHAR THEN finalize_frame(p)
            ELSE IF byte = CTRL_CHAR
            THEN [parser |-> [state |-> "NeedUnstuff", buffer |-> p.buffer],
                  result |-> NoneRes]
            ELSE [parser |-> [state |-> "InFrame", buffer |-> Append(p.buffer, byte)],
                  result |-> NoneRes]
      [] p.state = "NeedUnstuff" ->
            [parser |-> [state |-> "InFrame", buffer |-> Append(p.buffer, OrBit5(byte))],
             result |-> NoneRes]

\* process_bytes: Ok(frames) when no byte returned an error; at the first error the
\* `?` returns it, dropping the frames collected in this call and leaving the rest
\* of `bytes` unprocessed.
RECURSIVE process_bytes_loop(_, _, _)
process_bytes_loop(p, bytes, frames) ==
    IF bytes = <<>> THEN [parser |-> p, err |-> "none", frames |-> frames]
    ELSE LET r == process_byte(p, Head(bytes))
         IN IF IsErr(r.result)
            THEN [parser |-> r.parser, err |-> r.result.kind, frames |-> <<>>]
            ELSE process_bytes_loop(r.parser, Tail(bytes),
                    IF r.result.kind = "frame" THEN Append(frames, r.result)
                    ELSE frames)

\* a process_bytes that replaces the list of frames by each new frame
process_bytes_last_only(p, bytes) ==
    LET r == process_bytes_loop(p, bytes, <<>>)
    IN [r EXCEPT !.frames = IF r.frames = <<>> THEN <<>> ELSE <<Last(r.frames)>>]

process_bytes(p, bytes) == process_bytes_loop(p, bytes, <<>>)

\* the caller's loop over process_byte, one call per byte of `bytes`, collecting every
\* frame and every error returned
RECURSIVE byte_by_byte(_, _, _)
byte_by_byte(p, bytes, evs) ==
    IF bytes = <<>> THEN [parser |-> p, events |-> evs]
    ELSE LET r == process_byte(p, Head(bytes))
         IN byte_by_byte(r.parser, Tail(bytes),
                IF r.result.kind = "none" THEN evs ELSE Append(evs, r.result))

(***************************************************************************)
(* protocol/framing.rs: the encoder.                                       *)
(***************************************************************************)
\* data[lo..hi] with every byte of the set special escaped, by halves
RECURSIVE stuff_range(_, _, _, _)
stuff_range(data, lo, hi, special) ==
    IF lo > hi THEN <<>>
    ELSE IF lo = hi
    THEN LET byte == data[lo]
         IN IF byte \in special THEN <<CTRL_CHAR, ClearBit5(byte)>> ELSE <<byte>>
    ELSE LET mid == (lo + hi) \div 2
         IN stuff_range(data, lo, mid, special) \o stuff_range(data, mid + 1, hi, special)

\* a stuff_bytes that escapes the delimiter only
stuff_bytes_frame_char_only(data) == stuff_range(data, 1, Len(data), {FRAME_CHAR})

stuff_bytes(data) == stuff_range(data, 1, Len(data), {FRAME_CHAR, CTRL_CHAR})

create_frame(data) ==
    LET checksum == calculate_checksum(data)
        payload == Append(data, checksum)
        stuffed == stuff_bytes(payload)
    IN <<FRAME_CHAR>> \o stuffed \o <<FRAME_CHAR>>

(***************************************************************************)
(* Frame payloads of the record layer.  A payload is [len, at]: a byte     *)
(* string of len bytes, indexed from 0 as in the source, whose byte i is   *)
(* at[i] where listed and 0 elsewhere (records of 1128 bytes are mostly    *)
(* filler).                                                                *)
(***************************************************************************)
ByteAt(p, i) == IF i \in DOMAIN p.at THEN p.at[i] ELSE 0

\* u16::from_le_bytes([data[i], data[i + 1]])
U16At(p, i) == ByteAt(p, i) + 256 * ByteAt(p, i + 1)

\* i16::from_le_bytes([data[i], data[i + 1]])
I16At(p, i) == IF U16At(p, i) >= 32768 THEN U16At(p, i) - 65536 ELSE U16At(p, i)

\* u32::from_le_bytes([data[i], .., data[i + 3]])
U32At(p, i) == U16At(p, i) + 65536 * U16At(p, i + 2)

(***************************************************************************)
(* constants/dri_types.rs, constants/waveforms.rs                          *)
(***************************************************************************)
\* An Option over a numeric enum is a set: {} is None, {v} is Some(v).
DriLevel_from_u8(value) == IF value \in 2..10 THEN {value} ELSE {}

DriMainType_from_u16(value) ==
    CASE value = 0 -> "Phdb"
      [] value = 1 -> "Wave"
      [] value = 4 -> "Alarm"
      [] value = 5 -> "Network"
      [] value = 8 -> "Fo"
      [] OTHER -> "None"

PhdbSubrecordType_from_u8(value) == IF value \in 0..4 THEN {value} ELSE {}

PhdbClass_from_u8(value) == IF value \in 0..3 THEN {value} ELSE {}

\* the u8 codes WaveformType::from_u8 knows (0 is Cmd)
WaveformTypeCodes == (0..21) \cup {23, 24, 29, 32, 35, 36, 37, 38}

WaveformType_from_u8(value) == IF value \in WaveformTypeCodes THEN {value} ELSE {}

\* get_waveform_info(wf_type).samples_per_second
samples_per_second(wf_type) ==
    CASE wf_type \in {1, 2, 3, 35} -> 300
      [] wf_type \in {4, 5, 6, 7, 16, 17, 36, 37, 8, 38, 18, 19, 20, 21, 32} -> 100
      [] wf_type = 0 -> 0
      [] OTHER -> 25

(***************************************************************************)
(* protocol/header.rs                                                      *)
(***************************************************************************)
\* a DriError with its u8 argument (-1 when it has none)
DriError(name, value) == [name |-> name, value |-> value]

NoError == DriError("none", -1)

NoHeader ==
    [r_len |-> 0, r_nbr |-> 0, dri_level |-> 0, plug_id |-> 0, r_time |-> 0,
     r_maintype |-> "None", subrecords |-> <<>>]

ParseOk(h) == [kind |-> "Ok", header |-> h, err |-> NoError]

ParseErr(e) == [kind |-> "Err", header |-> NoHeader, err |-> e]

\* an index past the end of the slice: the thread panics
ParsePanic == [kind |-> "Panic", header |-> NoHeader, err |-> NoError]

\* the descriptor loop of DriHeader::parse from entry i on: the descriptors pushed;
\* panic when data[base], data[base + 1] or data[base + 2] is past the end
RECURSIVE parse_descriptors(_, _, _)
parse_descriptors(data, i, subrecords) ==
    IF i = MAX_SUBRECORDS THEN [panic |-> FALSE, subrecords |-> subrecords]
    ELSE LET base == 18 + (i * 3)
         IN IF base + 2 >= data.len THEN [panic |-> TRUE, subrecords |-> subrecords]
            ELSE IF ByteAt(data, base + 2) = 255
            THEN [panic |-> FALSE, subrecords |-> subrecords]
            ELSE parse_descriptors(data, i + 1,
                    Append(subrecords,
                           [offset |-> U16At(data, base), sr_type |-> ByteAt(data, base + 2)]))

\* a DriHeader::parse that validates the main type before the level
DriHeader_parse_type_first(data) ==
    IF data.len < HEADER_SIZE THEN ParseErr(DriError("IncompleteFrame", -1))
    ELSE LET dri_level_byte == ByteAt(data, 3)
             r_maintype_raw == U16At(data, 16)
             descriptors == parse_descriptors(data, 0, <<>>)
         IN IF DriMainType_from_u16(r_maintype_raw) = "None"
            THEN ParseErr(DriError("InvalidSubrecordType", r_maintype_raw % 256))
            ELSE IF DriLevel_from_u8(dri_level_byte) = {}
            THEN ParseErr(DriError("UnsupportedDriLevel", dri_level_byte))
            ELSE IF descriptors.panic THEN ParsePanic
            ELSE ParseOk([r_len |-> U16At(data, 0), r_nbr |-> ByteAt(data, 2),
                          dri_level |-> dri_level_byte,
                          plug_id |-> U16At(data, 4), r_time |-> U32At(data, 6),
                          r_maintype |-> DriMainType_from_u16(r_maintype_raw),
                          subrecords |-> descriptors.subrecords])

\* DriHeader::parse; `r_maintype_raw as u8` keeps the low byte of the code
DriHeader_parse(data) ==
    IF data.len < HEADER_SIZE THEN ParseErr(DriError("IncompleteFrame", -1))
    ELSE LET dri_level_byte == ByteAt(data, 3)
             r_maintype_raw == U16At(data, 16)
             descriptors == parse_descriptors(data, 0, <<>>)
         IN IF DriLevel_from_u8(dri_level_byte) = {}
            THEN ParseErr(DriError("UnsupportedDriLevel", dri_level_byte))
            ELSE IF DriMainType_from_u16(r_maintype_raw) = "None"
            THEN ParseErr(DriError("InvalidSubrecordType", r_maintype_raw % 256))
            ELSE IF descriptors.panic THEN ParsePanic
            ELSE ParseOk([r_len |-> U16At(data, 0), r_nbr |-> ByteAt(data, 2),
                          dri_level |-> dri_level_byte,
                          plug_id |-> U16At(data, 4), r_time |-> U32At(data, 6),
                          r_maintype |-> DriMainType_from_u16(r_maintype_raw),
                          subrecords |-> descriptors.subrecords])

\* a slice [lo, hi) of the data region, in data-region indices, or an error
Slice(lo, hi) == [kind |-> "Ok", lo |-> lo, hi |-> hi, err |-> NoError]

SliceErr(e) == [kind |-> "Err", lo |-> 0, hi |-> 0, err |-> e]

\* DriHeader::extract_data: &frame_data[HEADER_SIZE..] as a slice of the data region
extract_data(frame_data) ==
    IF frame_data.len < HEADER_SIZE THEN SliceErr(DriError("IncompleteFrame", -1))
    ELSE Slice(0, frame_data.len - HEADER_SIZE)

\* a get_subrecord_data that does not compare the start with the end
get_subrecord_data_unordered(header, data_len, index) ==
    IF index >= Len(header.subrecords)
    THEN SliceErr(DriError("InvalidSubrecordType", index % 256))
    ELSE LET start == header.subrecords[index + 1].offset
             end == IF index + 1 < Len(header.subrecords)
                    THEN header.subrecords[index + 2].offset
                    ELSE data_len
         IN IF start > data_len \/ end > data_len
            THEN SliceErr(DriError("IncompleteFrame", -1))
            ELSE Slice(start, end)

\* DriHeader::get_subrecord_data(data, index), index counted from 0; data_len is
\* data.len()
get_subrecord_data(header, data_len, index) ==
    IF index >= Len(header.subrecords)
    THEN SliceErr(DriError("InvalidSubrecordType", index % 256))
    ELSE LET start == header.subrecords[index + 1].offset
             end == IF index + 1 < Len(header.subrecords)
                    THEN header.subrecords[index + 2].offset
                    ELSE data_len
         IN IF start > data_len \/ end > data_len \/ start > end
            THEN SliceErr(DriError("IncompleteFrame", -1))
            ELSE Slice(start, end)

(***************************************************************************)
(* constants/special_values.rs and constants/scaling.rs: the reserved raw  *)
(* values.  An Option is a set: {} is None, {x} is Some(x).  A scale is a  *)
(* fraction num/den and a scaled value is the fraction value * num / den.  *)
(***************************************************************************)
DATA_INVALID_LIMIT == -32001

DATA_INVALID == -32767

DATA_NOT_UPDATED == -32766

DATA_DISCONT == -32765

DATA_UNDER_RANGE == -32764

DATA_OVER_RANGE == -32763

DATA_NOT_CALIBRATED == -32762

\* an is_invalid that leaves the limit itself valid
is_invalid_below_limit(value) == value < DATA_INVALID_LIMIT

is_invalid(value) == value <= DATA_INVALID_LIMIT

check_valid(value) == IF is_invalid(value) THEN {} ELSE {value}

\* the match of get_special_value, arm by arm
get_special_value(value) ==
    CASE value = DATA_INVALID -> {"Invalid"}
      [] value = DATA_NOT_UPDATED -> {"NotUpdated"}
      [] value = DATA_UNDER_RANGE -> {"UnderRange"}
      [] value = DATA_OVER_RANGE -> {"OverRange"}
      [] value = DATA_NOT_CALIBRATED -> {"NotCalibrated"}
      [] OTHER -> IF value > DATA_INVALID_LIMIT THEN {} ELSE {"Invalid"}

SCALE_PERCENT_100 == [num |-> 1, den |-> 100]

SCALE_FLOW_10 == [num |-> 1, den |-> 10]

scale_valid_i16(value, scale) ==
    IF is_invalid(value) THEN {} ELSE {[num |-> value * scale.num, den |-> scale.den]}

(***************************************************************************)
(* decode/waveforms.rs, decode/physiological.rs, decode/mod.rs.  The data  *)
(* region is the payload from byte HEADER_SIZE on: data[i] is byte         *)
(* HEADER_SIZE + i of the payload.                                         *)
(***************************************************************************)
DataAt(i) == HEADER_SIZE + i

\* WaveformStatus::from_u16
WaveformStatus_from_u16(status) ==
    [gap |-> status % 2 = 1,
     pacer_detected |-> (status \div 4) % 2 = 1,
     lead_off |-> (status \div 8) % 2 = 1]

\* the sample loop of decode_waveforms: act_len samples, fewer when the slice ends
read_samples(p, sub, act_len) ==
    LET room == (sub.hi - sub.lo - 6) \div 2
        n == IF act_len < room THEN act_len ELSE room
    IN [k \in 1..n |-> I16At(p, DataAt(sub.lo + 6 + 2 * (k - 1)))]

\* decode_waveforms from descriptor i (counted from 0) on
RECURSIVE decode_waveforms_from(_, _, _, _)
decode_waveforms_from(header, p, i, waveforms) ==
    IF i >= Len(header.subrecords) THEN waveforms
    ELSE LET subrecord == header.subrecords[i + 1]
             waveform_type == WaveformType_from_u8(subrecord.sr_type)
             sub == get_subrecord_data(header, p.len - HEADER_SIZE, i)
         IN IF \/ waveform_type = {}
               \/ waveform_type = {0}
               \/ sub.kind = "Err"
               \/ sub.hi - sub.lo < 6
            THEN decode_waveforms_from(header, p, i + 1, waveforms)
            ELSE decode_waveforms_from(header, p, i + 1,
                    Append(waveforms,
                           [waveform_type |-> subrecord.sr_type,
                            samples |-> read_samples(p, sub, U16At(p, DataAt(sub.lo))),
                            sample_rate |-> samples_per_second(subrecord.sr_type),
                            status |-> WaveformStatus_from_u16(
                                           U16At(p, DataAt(sub.lo + 2)))]))

\* a decode_waveforms that returns the newest subrecord first
decode_waveforms_newest_first(header, p) ==
    LET w == decode_waveforms_from(header, p, 0, <<>>)
    IN [k \in 1..Len(w) |-> w[Len(w) + 1 - k]]

decode_waveforms(header, p) == decode_waveforms_from(header, p, 0, <<>>)

\* what Decoder::decode_frame returns: Ok(Some(record)), Ok(None) or Err(message)
NoRecord == [type |-> "none"]

OkSome(record) == [kind |-> "Some", record |-> record, err |-> "none"]

OkNone == [kind |-> "None", record |-> NoRecord, err |-> "none"]

DecodeErr(msg) == [kind |-> "Err", record |-> NoRecord, err |-> msg]

(***************************************************************************)
(* decode/status_bits.rs, constants/physiological.rs and the group parsers *)
(* of decode/physiological.rs.  A group is read from the payload p at      *)
(* index b, the index of its first byte.                                   *)
(***************************************************************************)
SCALE_ST_100 == [num |-> 1, den |-> 100]

SCALE_PRESSURE_100 == [num |-> 1, den |-> 100]

SCALE_TEMP_100 == [num |-> 1, den |-> 100]

SCALE_IR_AMP_10 == [num |-> 1, den |-> 10]

SCALE_MAC_100 == [num |-> 1, den |-> 100]

SCALE_AWP_100 == [num |-> 1, den |-> 100]

SCALE_VOLUME_10 == [num |-> 1, den |-> 10]

SCALE_COMPLIANCE_100 == [num |-> 1, den |-> 100]

\* (word & (1 << n)) != 0
Bit(word, n) == (word \div (2 ^ n)) % 2 = 1

\* if is_invalid(raw) { None } else { Some(raw as f64) }
valid_f64(raw) == IF is_invalid(raw) THEN {} ELSE {[num |-> raw, den |-> 1]}

\* the 6-byte group header: a u32 status word, then a u16 label.  Of the status
\* word the low 16 bits are kept: no flag that is decoded lies above bit 13, and
\* a full u32 does not fit the integers of the model checker.
GroupHeader_parse(p, b) == [status |-> U16At(p, b), label |-> U16At(p, b + 4)]

EcgStatus_from_status(status) ==
    [exists |-> Bit(status, 0), active |-> Bit(status, 1), asystole |-> Bit(status, 2),
     noise |-> Bit(status, 7), artifact |-> Bit(status, 8), learning |-> Bit(status, 9),
     pacer_on |-> Bit(status, 10), channel1_off |-> Bit(status, 11),
     channel2_off |-> Bit(status, 12), channel3_off |-> Bit(status, 13)]

\* NibpStatus::from_label: exists and active are the constant true
NibpStatus_from_label(label) ==
    [exists |-> TRUE, active |-> TRUE, auto_mode |-> Bit(label, 3),
     stat_mode |-> Bit(label, 4), measuring |-> Bit(label, 5), stasis_on |-> Bit(label, 6),
     calibrating |-> Bit(label, 7), data_older_than_60s |-> Bit(label, 8)]

Co2Status_from_status(status) ==
    [exists |-> Bit(status, 0), active |-> Bit(status, 1), apnea_co2 |-> Bit(status, 2),
     calibrating_sensor |-> Bit(status, 3), zeroing_sensor |-> Bit(status, 4),
     occlusion |-> Bit(status, 5), air_leak |-> Bit(status, 6),
     apnea_from_resp |-> Bit(status, 7), apnea_deactivated |-> Bit(status, 8),
     wet_condition |-> Bit(status, 9)]

Spo2Status_from_status(status) == [exists |-> Bit(status, 0), active |-> Bit(status, 1)]

FlowVolStatus_from_status(status) ==
    [exists |-> Bit(status, 0), active |-> Bit(status, 1), disconnection |-> Bit(status, 2),
     calibrating |-> Bit(status, 3), zeroing |-> Bit(status, 4),
     obstruction |-> Bit(status, 5), leak |-> Bit(status, 6),
     measurement_off |-> Bit(status, 7), tv_base |-> (status \div 256) % 4]

GasStatus_from_status(status) ==
    [exists |-> Bit(status, 0), active |-> Bit(status, 1), calibrating |-> Bit(status, 2),
     measurement_off |-> Bit(status, 3)]

GenericStatus_from_status(status) == [exists |-> Bit(status, 0), active |-> Bit(status, 1)]

\* EcgLeadType::from_u8: NotSelected = 0, I .. V = 1 .. 7, None for the rest
EcgLeadType_from_u8(value) == IF value \in 0..7 THEN {value} ELSE {}

\* HrSource::from_u8: the codes 0..12
HrSource_from_u8(value) == IF value \in 0..12 THEN {value} ELSE {}

\* InvasivePressureLabel::from_u16: the codes 0..22
InvasivePressureLabel_from_u16(value) == IF value \in 0..22 THEN {value} ELSE {}

\* TemperatureLabel::from_u16: the codes 0..18
TemperatureLabel_from_u16(value) == IF value \in 0..18 THEN {value} ELSE {}

\* AnesthesiaAgent::from_u16: the codes 0..6
AnesthesiaAgent_from_u16(value) == IF value \in 0..6 THEN {value} ELSE {}

parse_ecg_group(p, b) ==
    LET header == GroupHeader_parse(p, b)
    IN [status |-> EcgStatus_from_status(header.status),
        hr |-> valid_f64(I16At(p, b + 6)),
        st1 |-> scale_valid_i16(I16At(p, b + 8), SCALE_ST_100),
        st2 |-> scale_valid_i16(I16At(p, b + 10), SCALE_ST_100),
        st3 |-> scale_valid_i16(I16At(p, b + 12), SCALE_ST_100),
        rr |-> valid_f64(I16At(p, b + 14)),
        hr_source |-> HrSource_from_u8((header.status \div 8) % 16),
        lead1 |-> EcgLeadType_from_u8(header.label % 16),
        lead2 |-> EcgLeadType_from_u8((header.label \div 16) % 16),
        lead3 |-> EcgLeadType_from_u8((header.label \div 256) % 16)]

parse_invp_group(p, b) ==
    LET header == GroupHeader_parse(p, b)
    IN [status |-> GenericStatus_from_status(header.status),
        sys |-> scale_valid_i16(I16At(p, b + 6), SCALE_PRESSURE_100),
        dia |-> scale_valid_i16(I16At(p, b + 8), SCALE_PRESSURE_100),
        mean |-> scale_valid_i16(I16At(p, b + 10), SCALE_PRESSURE_100),
        hr |-> valid_f64(I16At(p, b + 12)),
        label |-> InvasivePressureLabel_from_u16(header.label)]

parse_nibp_group(p, b) ==
    LET header == GroupHeader_parse(p, b)
    IN [status |-> NibpStatus_from_label(header.label),
        sys |-> scale_valid_i16(I16At(p, b + 6), SCALE_PRESSURE_100),
        dia |-> scale_valid_i16(I16At(p, b + 8), SCALE_PRESSURE_100),
        mean |-> scale_valid_i16(I16At(p, b + 10), SCALE_PRESSURE_100),
        hr |-> valid_f64(I16At(p, b + 12))]

parse_temp_group(p, b) ==
    LET header == GroupHeader_parse(p, b)
    IN [status |-> GenericStatus_from_status(header.status),
        temp |-> scale_valid_i16(I16At(p, b + 6), SCALE_TEMP_100),
        label |-> TemperatureLabel_from_u16(header.label)]

parse_spo2_group(p, b) ==
    LET header == GroupHeader_parse(p, b)
    IN [status |-> Spo2Status_from_status(header.status),
        spo2 |-> scale_valid_i16(I16At(p, b + 6), SCALE_PERCENT_100),
        pr |-> valid_f64(I16At(p, b + 8)),
        ir_amp |-> scale_valid_i16(I16At(p, b + 10), SCALE_IR_AMP_10)]

parse_co2_group(p, b) ==
    LET header == GroupHeader_parse(p, b)
    IN [status |-> Co2Status_from_status(header.status),
        et |-> scale_valid_i16(I16At(p, b + 6), SCALE_PERCENT_100),
        fi |-> scale_valid_i16(I16At(p, b + 8), SCALE_PERCENT_100),
        rr |-> valid_f64(I16At(p, b + 10))]

\* parse_o2_group and parse_n2o_group: the same body
parse_gas_group(p, b) ==
    LET header == GroupHeader_parse(p, b)
    IN [status |-> GasStatus_from_status(header.status),
        et |-> scale_valid_i16(I16At(p, b + 6), SCALE_PERCENT_100),
        fi |-> scale_valid_i16(I16At(p, b + 8), SCALE_PERCENT_100)]

parse_aa_group(p, b) ==
    LET header == GroupHeader_parse(p, b)
    IN [status |-> GasStatus_from_status(header.status),
        et |-> scale_valid_i16(I16At(p, b + 6), SCALE_PERCENT_100),
        fi |-> scale_valid_i16(I16At(p, b + 8), SCALE_PERCENT_100),
        mac |-> scale_valid_i16(I16At(p, b + 10), SCALE_MAC_100),
        agent |-> AnesthesiaAgent_from_u16(header.label)]

parse_flow_vol_group(p, b) ==
    LET header == GroupHeader_parse(p, b)
    IN [status |-> FlowVolStatus_from_status(header.status),
        rr |-> valid_f64(I16At(p, b + 6)),
        ppeak |-> scale_valid_i16(I16At(p, b + 8), SCALE_AWP_100),
        peep |-> scale_valid_i16(I16At(p, b + 10), SCALE_AWP_100),
        pplat |-> scale_valid_i16(I16At(p, b + 12), SCALE_AWP_100),
        tv_insp |-> scale_valid_i16(I16At(p, b + 14), SCALE_VOLUME_10),
        tv_exp |-> scale_valid_i16(I16At(p, b + 16), SCALE_VOLUME_10),
        compliance |-> scale_valid_i16(I16At(p, b + 18), SCALE_COMPLIANCE_100),
        mv_exp |-> scale_valid_i16(I16At(p, b + 20), SCALE_PERCENT_100)]

\* PhysiologicalData::empty: every status at its default (all flags false, tv_base
\* Atpd) and every value None
PhysiologicalData_empty ==
    [ecg |-> [status |-> EcgStatus_from_status(0), hr |-> {}, st1 |-> {}, st2 |-> {},
              st3 |-> {}, rr |-> {}, hr_source |-> {}, lead1 |-> {}, lead2 |-> {},
              lead3 |-> {}],
     invp1 |-> [status |-> GenericStatus_from_status(0), sys |-> {}, dia |-> {},
                mean |-> {}, hr |-> {}, label |-> {}],
     nibp |-> [status |-> [exists |-> FALSE, active |-> FALSE, auto_mode |-> FALSE,
                           stat_mode |-> FALSE, measuring |-> FALSE, stasis_on |-> FALSE,
                           calibrating |-> FALSE, data_older_than_60s |-> FALSE],
               sys |-> {}, dia |-> {}, mean |-> {}, hr |-> {}],
     temp1 |-> [status |-> GenericStatus_from_status(0), temp |-> {}, label |-> {}],
     temp2 |-> [status |-> GenericStatus_from_status(0), temp |-> {}, label |-> {}],
     spo2 |-> [status |-> Spo2Status_from_status(0), spo2 |-> {}, pr |-> {}, ir_amp |-> {}],
     co2 |-> [status |-> Co2Status_from_status(0), et |-> {}, fi |-> {}, rr |-> {}],
     o2 |-> [status |-> GasStatus_from_status(0), et |-> {}, fi |-> {}],
     n2o |-> [status |-> GasStatus_from_status(0), et |-> {}, fi |-> {}],
     aa |-> [status |-> GasStatus_from_status(0), et |-> {}, fi |-> {}, mac |-> {},
             agent |-> {}],
     flow |-> [status |-> FlowVolStatus_from_status(0), rr |-> {}, ppeak |-> {},
               peep |-> {}, pplat |-> {}, tv_insp |-> {}, tv_exp |-> {},
               compliance |-> {}, mv_exp |-> {}]]

\* decode_basic_class(data, phys): data is the len bytes of p from index b on; each
\* group is read when data reaches its end, at the offsets the code uses
decode_basic_class(p, b, len) ==
    LET e == PhysiologicalData_empty
    IN [ecg |-> IF len >= 16 THEN parse_ecg_group(p, b) ELSE e.ecg,
        invp1 |-> IF len >= 30 THEN parse_invp_group(p, b + 16) ELSE e.invp1,
        nibp |-> IF len >= 90 THEN parse_nibp_group(p, b + 76) ELSE e.nibp,
        temp1 |-> IF len >= 98 THEN parse_temp_group(p, b + 90) ELSE e.temp1,
        temp2 |-> IF len >= 106 THEN parse_temp_group(p, b + 98) ELSE e.temp2,
        spo2 |-> IF len >= 136 THEN parse_spo2_group(p, b + 122) ELSE e.spo2,
        co2 |-> IF len >= 150 THEN parse_co2_group(p, b + 136) ELSE e.co2,
        o2 |-> IF len >= 160 THEN parse_gas_group(p, b + 150) ELSE e.o2,
        n2o |-> IF len >= 170 THEN parse_gas_group(p, b + 160) ELSE e.n2o,
        aa |-> IF len >= 182 THEN parse_aa_group(p, b + 170) ELSE e.aa,
        flow |-> IF len >= 204 THEN parse_flow_vol_group(p, b + 182) ELSE e.flow]

\* decode_physiological on a subrecord of at least PHDB_SUBRECORD_SIZE bytes
decode_physiological(p, sub, subtype, class) ==
    IF sub.hi - sub.lo < PHDB_SUBRECORD_SIZE
    THEN DecodeErr("Physiological subrecord too short")
    ELSE OkSome([type |-> "Physiological", class |-> class, subtype |-> subtype,
                 timestamp |-> U32At(p, DataAt(sub.lo)),
                 groups |-> IF class = 0
                            THEN decode_basic_class(p, DataAt(sub.lo) + 4,
                                                    sub.hi - sub.lo - 4)
                            ELSE PhysiologicalData_empty])

\* the DriMainType::Phdb arm of decode_frame
decode_frame_phdb(header, p) ==
    IF header.subrecords = <<>>
    THEN DecodeErr("No subrecords in physiological data frame")
    ELSE LET subtype == PhdbSubrecordType_from_u8(header.subrecords[1].sr_type)
             sub == get_subrecord_data(header, p.len - HEADER_SIZE, 0)
         IN IF subtype = {} THEN DecodeErr("Invalid subrecord type")
            ELSE IF sub.kind = "Err" THEN DecodeErr(sub.err.name)
            ELSE IF sub.hi - sub.lo < PHDB_SUBRECORD_SIZE
            THEN DecodeErr("Physiological subrecord too short")
            ELSE LET cl_drilvl_subt == U16At(p, DataAt(sub.lo + 1086))
                     class_bits == (cl_drilvl_subt \div 256) % 16
                 IN IF PhdbClass_from_u8(class_bits) = {}
                    THEN DecodeErr("Invalid class")
                    ELSE decode_physiological(p, sub, header.subrecords[1].sr_type,
                                              class_bits)

\* the DriMainType::Wave arm of decode_frame
decode_frame_wave(header, p) ==
    LET waveforms == decode_waveforms(header, p)
    IN IF waveforms = <<>> THEN OkNone
       ELSE OkSome([type |-> "Waveform", waveforms |-> waveforms])

\* a decode_frame that has no arm for event records and fails on them
decode_frame_no_event_arm(header, p) ==
    CASE header.r_maintype = "Phdb" -> decode_frame_phdb(header, p)
      [] header.r_maintype = "Wave" -> decode_frame_wave(header, p)
      [] header.r_maintype \in {"Alarm", "Network"} -> OkNone
      [] OTHER -> DecodeErr("Unsupported main type")

\* Decoder::decode_frame(header, data), data being the data region of payload p
decode_frame(header, p) ==
    CASE header.r_maintype = "Phdb" -> decode_frame_phdb(header, p)
      [] header.r_maintype = "Wave" -> decode_frame_wave(header, p)
      [] header.r_maintype = "Alarm" -> OkNone
      [] header.r_maintype = "Network" -> OkNone
      [] header.r_maintype = "Fo" -> OkNone

NoPayload == [len |-> 0, at |-> <<>>]

ParseNotRun == [kind |-> "NotRun", header |-> NoHeader, err |-> NoError]

DecodeNotRun == [kind |-> "NotRun", record |-> NoRecord, err |-> "none"]

\* what the previous turn was about and how it ended
TurnSummary(h, o) == [kind |-> h.kind, r_maintype |-> h.header.r_maintype, outcome |-> o]

(***************************************************************************)
(* protocol/header.rs: the request builders.  A request is a sequence of   *)
(* bytes; byte i of the source (from 0) is element i + 1.                  *)
(***************************************************************************)
Zeros(n) == [i \in 1..n |-> 0]

\* v.to_le_bytes() of a u16
U16LE(v) == <<v % 256, (v \div 256) % 256>>

\* v.to_le_bytes() of a u32
U32LE(v) == <<v % 256, (v \div 256) % 256, (v \div 65536) % 256, (v \div 16777216) % 256>>

\* the 40 header bytes both builders write: r_len, r_nbr, dri_level, plug_id, r_time,
\* reserved, r_maintype, the descriptor (offset 0, type 0), the end marker, zeros
request_header(r_len, r_maintype) ==
    U16LE(r_len % 65536) \o <<0>> \o <<0>> \o U16LE(0) \o U32LE(0) \o Zeros(6)
        \o U16LE(r_maintype) \o U16LE(0) \o <<0>> \o U16LE(0) \o <<255>> \o Zeros(16)

\* a create_phdb_request that writes the interval as one byte
create_phdb_request_u8_interval(subtype, interval, class_mask) ==
    request_header(HEADER_SIZE + 9, 0)
        \o <<subtype>> \o <<interval % 256, 0>> \o U32LE(class_mask) \o Zeros(2)

\* create_phdb_request(subtype: u8, interval: u16, class_mask: u32)
create_phdb_request(subtype, interval, class_mask) ==
    request_header(HEADER_SIZE + 9, 0)
        \o <<subtype>> \o U16LE(interval) \o U32LE(class_mask) \o Zeros(2)

\* a create_waveform_request that always writes the 0xFF end marker
create_waveform_request_always_marked(waveform_types, request_type) ==
    LET n == Len(waveform_types)
        m == IF n < 8 THEN n ELSE 7
    IN request_header(HEADER_SIZE + 32, 1)
         \o [j \in 1..32 |->
               CASE j = 1 -> request_type % 256
                 [] j = 2 -> request_type \div 256
                 [] j \in 5..12 -> IF j - 5 < m THEN waveform_types[j - 4]
                                   ELSE IF j - 5 = m THEN 255 ELSE 0
                 [] OTHER -> 0]

\* create_waveform_request(waveform_types: &[u8], request_type: u16): the first 8
\* types, then 0xFF when there are fewer than 8
create_waveform_request(waveform_types, request_type) ==
    LET n == Len(waveform_types)
    IN request_header(HEADER_SIZE + 32, 1)
         \o [j \in 1..32 |->
               CASE j = 1 -> request_type % 256
                 [] j = 2 -> request_type \div 256
                 [] j \in 5..12 -> IF j - 5 < n THEN waveform_types[j - 4]
                                   ELSE IF j - 5 = n THEN 255 ELSE 0
                 [] OTHER -> 0]

(***************************************************************************)
(* constants/waveforms.rs: the sample rate limit; device/serial_device.rs: *)
(* the requests.                                                           *)
(***************************************************************************)
MAX_TOTAL_SAMPLE_RATE == 600

\* WF_REQ_CONT_START
WfReqContStart == 0

\* WF_REQ_CONT_STOP
WfReqContStop == 1

\* PHDBCL_REQ_BASIC_MASK | PHDBCL_REQ_EXT1_MASK | PHDBCL_REQ_EXT2_MASK | PHDBCL_REQ_EXT3_MASK
PHDBCL_REQ_ALL == 14

\* the sum of the rates of waveforms[lo..hi], by halves
RECURSIVE rate_sum(_, _, _)
rate_sum(waveforms, lo, hi) ==
    IF lo > hi THEN 0
    ELSE IF lo = hi THEN samples_per_second(waveforms[lo])
    ELSE LET mid == (lo + hi) \div 2
         IN rate_sum(waveforms, lo, mid) + rate_sum(waveforms, mid + 1, hi)

\* calculate_total_sample_rate: the u16 sum of the rates.  The rates are not
\* negative, so a partial sum passes 65535 exactly when the whole sum does: the
\* build with overflow checks panics then, the build without returns the sum
\* modulo 2^16.
calculate_total_sample_rate(waveforms, overflow_checks) ==
    LET s == rate_sum(waveforms, 1, Len(waveforms))
    IN [panic |-> s > 65535 /\ overflow_checks, total |-> s % 65536]

\* validate_waveform_set: "Ok", "Err", or "Panic" when the sum panicked
validate_waveform_set(waveforms, overflow_checks) ==
    LET t == calculate_total_sample_rate(waveforms, overflow_checks)
    IN IF t.panic THEN "Panic"
       ELSE IF t.total > MAX_TOTAL_SAMPLE_RATE THEN "Err" ELSE "Ok"

\* name.to_uppercase() on the names used
to_uppercase(name) ==
    CASE name = "ecg1" -> "ECG1"
      [] name = "pleth" -> "PLETH"
      [] OTHER -> name

\* SerialDevice::parse_waveform_name: {} is None, {code} is Some(type)
parse_waveform_name(name) ==
    LET n == to_uppercase(name)
    IN CASE n = "ECG1" -> {1}   [] n = "ECG2" -> {2}   [] n = "ECG3" -> {3}
         [] n = "PLETH" -> {8}  [] n = "PLETH2" -> {38} [] n = "CO2" -> {9}
         [] n = "O2" -> {10}    [] n = "N2O" -> {11}    [] n = "AA" -> {12}
         [] n = "INVP1" -> {4}  [] n = "INVP2" -> {5}   [] n = "INVP3" -> {6}
         [] n = "INVP4" -> {7}  [] n = "INVP5" -> {16}  [] n = "INVP6" -> {17}
         [] n = "INVP7" -> {36} [] n = "INVP8" -> {37}  [] n = "AWP" -> {13}
         [] n = "FLOW" -> {14}  [] n = "RESP" -> {15}   [] n = "EEG1" -> {18}
         [] n = "EEG2" -> {19}  [] n = "EEG3" -> {20}   [] n = "EEG4" -> {21}
         [] n \in {"ENT_100", "ENT100"} -> {32}
         [] OTHER -> {}

\* waveform_names[lo..hi].iter().filter_map(parse_waveform_name).collect(), by halves
RECURSIVE filter_map_range(_, _, _)
filter_map_range(waveform_names, lo, hi) ==
    IF lo > hi THEN <<>>
    ELSE IF lo = hi
    THEN LET t == parse_waveform_name(waveform_names[lo])
         IN IF t = {} THEN <<>> ELSE <<CHOOSE c \in t : TRUE>>
    ELSE LET mid == (lo + hi) \div 2
         IN filter_map_range(waveform_names, lo, mid)
                \o filter_map_range(waveform_names, mid + 1, hi)

filter_map_names(waveform_names) ==
    filter_map_range(waveform_names, 1, Len(waveform_names))

(***************************************************************************)
(* The parser driven one byte at a time.                                   *)
(***************************************************************************)
parserVars == <<state, buffer, fed, events, ret>>

chunkVars == <<cstate, cbuffer, pending, cevents>>

deviceVars == <<dpc, delivered, dret, reads>>

roundTripVars == <<txPayload, txFrame, rxResult, rtPc>>

decodeVars == <<mpc, frameData, hdr, decoded, outcome, prev>>

requestVars == <<port, reqRet, reqCall, calls>>

waveVars == <<wfData, wfHeader, wfOut, wfPc>>

specialVars == <<svValue, svFn, svOut>>

builderVars == <<bArgs, bOut>>

physVars == <<phIn, phOut>>

streamVars == <<mfIn, mfOut>>

sliceVars == <<sdIn, sdOut>>

vars ==
    <<parserVars, chunkVars, deviceVars, roundTripVars, decodeVars, requestVars, waveVars,
      specialVars, builderVars, physVars, streamVars, sliceVars>>

ParserInit ==
    /\ state = FrameParser_new.state
    /\ buffer = FrameParser_new.buffer
    /\ fed = <<>>
    /\ events = <<>>
    /\ ret = NoneRes

ChunkInit ==
    /\ cstate = FrameParser_new.state
    /\ cbuffer = FrameParser_new.buffer
    /\ pending = <<>>
    /\ cevents = <<>>

DeviceInit ==
    /\ dpc = "idle"
    /\ delivered = <<>>
    /\ dret = NoneRes
    /\ reads = 0

RoundTripIdle ==
    /\ txPayload = <<>>
    /\ txFrame = <<>>
    /\ rxResult = process_bytes(FrameParser_new, <<>>)
    /\ rtPc = "payload"

DecodeInit ==
    /\ mpc = "read_frame"
    /\ frameData = NoPayload
    /\ hdr = ParseNotRun
    /\ decoded = DecodeNotRun
    /\ outcome = "none yet"
    /\ prev = TurnSummary(ParseNotRun, "none yet")

Call(op, interval, names) == [op |-> op, interval |-> interval, names |-> names]

RequestInit ==
    /\ port = <<>>
    /\ reqRet = "none"
    /\ reqCall = Call("none", 0, <<>>)
    /\ calls = 0

WaveIdle ==
    /\ wfData = NoPayload
    /\ wfHeader = ParseNotRun
    /\ wfOut = <<>>
    /\ wfPc = "idle"

SpecialIdle ==
    /\ svValue = 0
    /\ svFn = "idle"
    /\ svOut = {}

BuilderArgs(fn, subtype, interval, class_mask, waveform_types, request_type) ==
    [fn |-> fn, subtype |-> subtype, interval |-> interval, class_mask |-> class_mask,
     waveform_types |-> waveform_types, request_type |-> request_type]

BuilderIdle ==
    /\ bArgs = BuilderArgs("idle", 0, 0, 0, <<>>, 0)
    /\ bOut = <<>>

\* what was written into a physiological subrecord of sublen bytes: one parameter
\* group, at offset bytes from byte 4 of the subrecord
PhysIn(group, offset, status, label, value, class, sublen) ==
    [group |-> group, offset |-> offset, status |-> status, label |-> label,
     value |-> value, class |-> class, sublen |-> sublen]

PhysIdle ==
    /\ phIn = PhysIn("idle", 0, 0, 0, 0, 0, 0)
    /\ phOut = DecodeNotRun

StreamIn(payloads, start, stray) ==
    [payloads |-> payloads, start |-> start, stray |-> stray]

StreamOut(pc, err, evs, parser_state) ==
    [pc |-> pc, err |-> err, events |-> evs, state |-> parser_state]

StreamIdle ==
    /\ mfIn = StreamIn(<<>>, 0, 0)
    /\ mfOut = StreamOut("idle", "none", <<>>, "WaitingForStart")

SliceIn(offsets, data_len, index) ==
    [offsets |-> offsets, data_len |-> data_len, index |-> index]

SliceNotRun == [kind |-> "NotRun", lo |-> 0, hi |-> 0, err |-> NoError]

SliceIdle ==
    /\ sdIn = SliceIn(<<>>, 0, -1)
    /\ sdOut = SliceNotRun

ProcessByteCall(byte) ==
    /\ LET r == process_byte([state |-> state, buffer |-> buffer], byte)
       IN /\ state' = r.parser.state
          /\ buffer' = r.parser.buffer
          /\ events' = IF r.result.kind = "none" THEN events
                       ELSE Append(events, r.result)
          /\ ret' = r.result
    /\ fed' = Append(fed, byte)

ProcessByte(byte) ==
    /\ Len(fed) < MaxStream
    /\ ProcessByteCall(byte)
    /\ UNCHANGED <<chunkVars, deviceVars, roundTripVars, decodeVars, requestVars, waveVars,
                   specialVars, builderVars, physVars, streamVars, sliceVars>>

ParserNext == \E byte \in StreamBytes : ProcessByte(byte)

Init ==
    /\ ParserInit /\ ChunkInit /\ DeviceInit /\ RoundTripIdle /\ DecodeInit /\ RequestInit
    /\ WaveIdle /\ SpecialIdle /\ BuilderIdle /\ PhysIdle /\ StreamIdle /\ SliceIdle

SpecParser == Init /\ [][ParserNext]_vars

(***************************************************************************)
(* The same stream through two parsers: one fed byte by byte as the bytes  *)
(* come, one fed the stream in chunks through process_bytes.               *)
(***************************************************************************)
Collect(byte) ==
    /\ Len(fed) < MaxChunked
    /\ ProcessByteCall(byte)
    /\ pending' = Append(pending, byte)
    /\ UNCHANGED <<cstate, cbuffer, cevents, deviceVars, roundTripVars, decodeVars,
                   requestVars, waveVars, specialVars, builderVars, physVars, streamVars,
                   sliceVars>>

\* one process_bytes call on the chunk collected; the caller notes its frames, or its
\* error, and goes on with the next chunk
ProcessBytes ==
    /\ pending # <<>>
    /\ LET r == process_bytes([state |-> cstate, buffer |-> cbuffer], pending)
       IN /\ cstate' = r.parser.state
          /\ cbuffer' = r.parser.buffer
          /\ cevents' = IF r.err = "none" THEN cevents \o r.frames
                        ELSE Append(cevents, ErrRes(r.err))
    /\ pending' = <<>>
    /\ UNCHANGED <<parserVars, deviceVars, roundTripVars, decodeVars, requestVars, waveVars,
                   specialVars, builderVars, physVars, streamVars, sliceVars>>

ChunksNext == (\E byte \in StreamBytes : Collect(byte)) \/ ProcessBytes

SpecChunks == Init /\ [][ChunksNext]_vars

(***************************************************************************)
(* device/serial_device.rs: the frame pull.  Bytes arrive at the port      *)
(* (pending); a port read takes some of them; fed is what was read so far. *)
(***************************************************************************)
Arrive(byte) ==
    /\ Len(fed) + Len(pending) < MaxWire
    /\ pending' = Append(pending, byte)
    /\ UNCHANGED <<state, buffer, fed, events, ret, cstate, cbuffer, cevents, deviceVars,
                   roundTripVars, decodeVars, requestVars, waveVars, specialVars, builderVars,
                   physVars, streamVars, sliceVars>>

\* SerialDevice::read_frame is entered
ReadFrameCall ==
    /\ dpc = "idle"
    /\ dpc' = "read_frame"
    /\ reads' = 0
    /\ UNCHANGED <<parserVars, chunkVars, delivered, dret, roundTripVars, decodeVars,
                   requestVars, waveVars, specialVars, builderVars, physVars, streamVars,
                   sliceVars>>

\* one turn of read_frame's loop: port.read returned bytes_read = n > 0 bytes
ReadFrameLoop(n) ==
    /\ dpc = "read_frame"
    /\ reads < MaxReads
    /\ reads' = reads + 1
    /\ n \in 1..Len(pending)
    /\ LET r == process_bytes([state |-> cstate, buffer |-> cbuffer], SubSeq(pending, 1, n))
       IN /\ cstate' = r.parser.state
          /\ cbuffer' = r.parser.buffer
          /\ IF r.err # "none"
             THEN /\ dret' = ErrRes(r.err)
                  /\ dpc' = "idle"
                  /\ delivered' = delivered
             ELSE IF r.frames # <<>>
             THEN /\ dret' = r.frames[1]
                  /\ dpc' = "idle"
                  /\ delivered' = Append(delivered, r.frames[1])
             ELSE UNCHANGED <<dret, dpc, delivered>>
    /\ fed' = fed \o SubSeq(pending, 1, n)
    /\ pending' = SubSeq(pending, n + 1, Len(pending))
    /\ UNCHANGED <<state, buffer, events, ret, cevents, roundTripVars, decodeVars, requestVars,
                   waveVars, specialVars, builderVars, physVars, streamVars, sliceVars>>

\* one turn of read_frame's loop: port.read returned 0 bytes or timed out
ReadFrameNoData ==
    /\ dpc = "read_frame"
    /\ reads < MaxReads
    /\ reads' = reads + 1
    /\ UNCHANGED <<parserVars, chunkVars, dpc, delivered, dret, roundTripVars, decodeVars,
                   requestVars, waveVars, specialVars, builderVars, physVars, streamVars,
                   sliceVars>>

\* one turn of read_frame's loop: port.read failed with another error
ReadFrameIoError ==
    /\ dpc = "read_frame"
    /\ reads < MaxReads
    /\ reads' = reads + 1
    /\ dret' = ErrRes("IoError")
    /\ dpc' = "idle"
    /\ UNCHANGED <<parserVars, chunkVars, delivered, roundTripVars, decodeVars, requestVars,
                   waveVars, specialVars, builderVars, physVars, streamVars, sliceVars>>

\* SerialDevice::try_read_frame whose port.read returned n > 0 bytes
TryReadFrame(n) ==
    /\ dpc = "idle"
    /\ reads' = 1
    /\ n \in 1..Len(pending)
    /\ LET r == process_bytes([state |-> cstate, buffer |-> cbuffer], SubSeq(pending, 1, n))
       IN /\ cstate' = r.parser.state
          /\ cbuffer' = r.parser.buffer
          /\ IF r.err # "none"
             THEN dret' = ErrRes(r.err) /\ delivered' = delivered
             ELSE IF r.frames # <<>>
             THEN dret' = r.frames[1] /\ delivered' = Append(delivered, r.frames[1])
             ELSE dret' = NoneRes /\ delivered' = delivered
    /\ fed' = fed \o SubSeq(pending, 1, n)
    /\ pending' = SubSeq(pending, n + 1, Len(pending))
    /\ UNCHANGED <<state, buffer, events, ret, cevents, dpc, roundTripVars, decodeVars,
                   requestVars, waveVars, specialVars, builderVars, physVars, streamVars,
                   sliceVars>>

\* SerialDevice::try_read_frame whose port.read returned 0 bytes, timed out (None) or
\* failed (the error)
TryReadFrameNoData ==
    /\ dpc = "idle"
    /\ reads' = 1
    /\ dret' \in {NoneRes, ErrRes("IoError")}
    /\ UNCHANGED <<parserVars, chunkVars, dpc, delivered, roundTripVars, decodeVars,
                   requestVars, waveVars, specialVars, builderVars, physVars, streamVars,
                   sliceVars>>

DeviceNext ==
    \/ \E byte \in WireBytes : Arrive(byte)
    \/ ReadFrameCall
    \/ \E n \in 1..MaxWire : ReadFrameLoop(n)
    \/ ReadFrameNoData
    \/ ReadFrameIoError
    \/ \E n \in 1..MaxWire : TryReadFrame(n)
    \/ TryReadFrameNoData

SpecDevice == Init /\ [][DeviceNext]_vars

(***************************************************************************)
(* Round trip: create_frame of a payload, parsed back by a fresh parser    *)
(* (framing.rs, test_create_frame).                                        *)
(***************************************************************************)
RoundTripInit ==
    /\ txPayload \in Payloads \cup {<<>>}
    /\ txFrame = <<>>
    /\ rxResult = process_bytes(FrameParser_new, <<>>)
    /\ rtPc = "payload"

CreateFrame ==
    /\ rtPc = "payload"
    /\ txFrame' = create_frame(txPayload)
    /\ rtPc' = "framed"
    /\ UNCHANGED <<parserVars, chunkVars, deviceVars, txPayload, rxResult, decodeVars,
                   requestVars, waveVars, specialVars, builderVars, physVars, streamVars,
                   sliceVars>>

ParseBack ==
    /\ rtPc = "framed"
    /\ rxResult' = process_bytes(FrameParser_new, txFrame)
    /\ rtPc' = "parsed"
    /\ UNCHANGED <<parserVars, chunkVars, deviceVars, txPayload, txFrame, decodeVars,
                   requestVars, waveVars, specialVars, builderVars, physVars, streamVars,
                   sliceVars>>

RoundTripNext == CreateFrame \/ ParseBack

InitRoundTrip ==
    /\ ParserInit /\ ChunkInit /\ DeviceInit /\ RoundTripInit /\ DecodeInit /\ RequestInit
    /\ WaveIdle /\ SpecialIdle /\ BuilderIdle /\ PhysIdle /\ StreamIdle /\ SliceIdle

SpecRoundTrip == InitRoundTrip /\ [][RoundTripNext]_vars

(***************************************************************************)
(* main.rs: the acquisition loop.  Each turn takes a frame from the        *)
(* device, parses its header, extracts the data region and decodes it; an  *)
(* error ends the turn, a panic ends the program.                          *)
(***************************************************************************)
\* the payload of len bytes with this level byte, main type code, nd descriptors of
\* type ty at offsets 0, 8, 16, .. followed by the 0xFF end marker, data[0] = al and
\* the class bits cl in the last byte of a 1088-byte subrecord
MkPayload(len, level, mt, nd, ty, al, cl) ==
    [len |-> len,
     at |-> [i \in {j \in {3, 16, 17} \cup (18..41) \cup {HEADER_SIZE + 1087} : j < len} |->
               CASE i = 3 -> level
                 [] i = 16 -> mt % 256
                 [] i = 17 -> mt \div 256
                 [] i = HEADER_SIZE -> al
                 [] i = HEADER_SIZE + 1087 -> cl
                 [] OTHER ->
                      LET k == (i - 18) \div 3
                          f == (i - 18) % 3
                      IN IF k < nd THEN (IF f = 0 THEN (k * 8) % 256
                                         ELSE IF f = 1 THEN 0 ELSE ty)
                         ELSE IF k = nd /\ f = 2 THEN 255 ELSE 0]]

FramePayloads ==
    {MkPayload(len, level, mt, nd, ty, al, cl) :
        len \in {39, 40, 41, 48, 1128}, level \in {1, 2, 10, 11},
        mt \in {0, 1, 4, 5, 8, 258}, nd \in {0, 1, 8}, ty \in {1, 200},
        al \in 0..MaxActLen, cl \in {0, 4}}

\* device.read_frame() returns Ok(frame)
ReadFrameOk(p) ==
    /\ mpc = "read_frame"
    /\ frameData' = p
    /\ prev' = TurnSummary(hdr, outcome)
    /\ hdr' = ParseNotRun
    /\ decoded' = DecodeNotRun
    /\ outcome' = "pending"
    /\ mpc' = "parse"
    /\ UNCHANGED <<parserVars, chunkVars, deviceVars, roundTripVars, requestVars, waveVars,
                   specialVars, builderVars, physVars, streamVars, sliceVars>>

\* DriHeader::parse(&frame.data): Err is reported and the loop continues
ParseHeader ==
    /\ mpc = "parse"
    /\ hdr' = DriHeader_parse(frameData)
    /\ mpc' = CASE hdr'.kind = "Ok" -> "extract_data"
                [] hdr'.kind = "Err" -> "read_frame"
                [] hdr'.kind = "Panic" -> "aborted"
    /\ outcome' = IF hdr'.kind = "Err" THEN "Failed to parse header" ELSE outcome
    /\ UNCHANGED <<frameData, decoded, prev, parserVars, chunkVars, deviceVars,
                   roundTripVars, requestVars, waveVars, specialVars, builderVars, physVars,
                   streamVars, sliceVars>>

\* header.extract_data(&frame.data)
ExtractData ==
    /\ mpc = "extract_data"
    /\ LET d == extract_data(frameData)
       IN /\ mpc' = IF d.kind = "Ok" THEN "decode_frame" ELSE "read_frame"
          /\ outcome' = IF d.kind = "Ok" THEN outcome ELSE "Failed to extract data"
    /\ UNCHANGED <<frameData, hdr, decoded, prev, parserVars, chunkVars, deviceVars,
                   roundTripVars, requestVars, waveVars, specialVars, builderVars, physVars,
                   streamVars, sliceVars>>

\* decoder.decode_frame(&header, data) and the match on its result
DecodeFrame ==
    /\ mpc = "decode_frame"
    /\ decoded' = decode_frame(hdr.header, frameData)
    /\ outcome' = CASE decoded'.kind = "Some" -> "record"
                    [] decoded'.kind = "None" -> "no data in frame"
                    [] decoded'.kind = "Err" -> "Decode error"
    /\ mpc' = "read_frame"
    /\ UNCHANGED <<frameData, hdr, prev, parserVars, chunkVars, deviceVars, roundTripVars,
                   requestVars, waveVars, specialVars, builderVars, physVars, streamVars,
                   sliceVars>>

DecodeNext ==
    \/ \E p \in FramePayloads : ReadFrameOk(p)
    \/ ParseHeader
    \/ ExtractData
    \/ DecodeFrame

SpecDecode == Init /\ [][DecodeNext]_vars

(***************************************************************************)
(* device/serial_device.rs: the requests.  port is what write_frame wrote, *)
(* one element per write_all call; the port accepts every write.           *)
(***************************************************************************)
\* the intervals asked of request_displayed_values
Intervals == {0, 1, 4, 5, 6, 300}

\* the waveform names asked of request_waveforms: 300 Hz, 300 Hz, 25 Hz, unknown
WaveformNames == {"ecg1", "ECG2", "CO2", "BOGUS"}

\* the fewest 300 Hz waveforms whose total is past 65535
OverflowCount == (65535 \div 300) + 1

\* nine different waveforms whose rates add up to 375 Hz: seven of 25 Hz, two of 100 Hz
NineNames == <<"CO2", "O2", "N2O", "AA", "AWP", "FLOW", "RESP", "PLETH", "INVP1">>

\* the name lists asked of request_waveforms: the short ones, one name repeated
\* MAX_SUBRECORDS + 1 and OverflowCount times, and nine different names
NameLists ==
    UNION {[1..n -> WaveformNames] : n \in 0..MaxNames}
        \cup {[i \in 1..n |-> name] : n \in {MAX_SUBRECORDS + 1, OverflowCount},
                                      name \in {"ecg1", "CO2"}}
        \cup {NineNames}

\* SerialDevice::request_displayed_values(interval)
RequestDisplayedValues(interval) ==
    /\ calls < MaxCalls
    /\ LET clamped == IF interval > 5 THEN interval ELSE 5
       IN port' = Append(port, create_frame(
                      create_phdb_request(1, clamped, PHDBCL_REQ_ALL)))
    /\ reqRet' = "Ok"
    /\ reqCall' = Call("request_displayed_values", interval, <<>>)
    /\ calls' = calls + 1
    /\ UNCHANGED <<parserVars, chunkVars, deviceVars, roundTripVars, decodeVars, waveVars,
                   specialVars, builderVars, physVars, streamVars, sliceVars>>

\* SerialDevice::request_trend_60s()
RequestTrend60s ==
    /\ calls < MaxCalls
    /\ port' = Append(port, create_frame(create_phdb_request(3, 1, PHDBCL_REQ_ALL)))
    /\ reqRet' = "Ok"
    /\ reqCall' = Call("request_trend_60s", 1, <<>>)
    /\ calls' = calls + 1
    /\ UNCHANGED <<parserVars, chunkVars, deviceVars, roundTripVars, decodeVars, waveVars,
                   specialVars, builderVars, physVars, streamVars, sliceVars>>

\* SerialDevice::request_waveforms(waveform_names), in a build with or without
\* overflow checks
RequestWaveforms(waveform_names, overflow_checks) ==
    /\ calls < MaxCalls
    /\ LET waveforms == filter_map_names(waveform_names)
           valid == validate_waveform_set(waveforms, overflow_checks)
       IN IF waveforms = <<>>
          THEN reqRet' = "Err" /\ port' = port
          ELSE IF valid # "Ok"
          THEN reqRet' = valid /\ port' = port
          ELSE /\ reqRet' = "Ok"
               /\ port' = Append(port, create_frame(
                              create_waveform_request(waveforms, WfReqContStart)))
    /\ reqCall' = Call("request_waveforms", 0, waveform_names)
    /\ calls' = calls + 1
    /\ UNCHANGED <<parserVars, chunkVars, deviceVars, roundTripVars, decodeVars, waveVars,
                   specialVars, builderVars, physVars, streamVars, sliceVars>>

\* SerialDevice::stop_waveforms()
StopWaveforms ==
    /\ calls < MaxCalls
    /\ port' = Append(port, create_frame(create_waveform_request(<<>>, WfReqContStop)))
    /\ reqRet' = "Ok"
    /\ reqCall' = Call("stop_waveforms", 0, <<>>)
    /\ calls' = calls + 1
    /\ UNCHANGED <<parserVars, chunkVars, deviceVars, roundTripVars, decodeVars, waveVars,
                   specialVars, builderVars, physVars, streamVars, sliceVars>>

\* a stop_all that stops the waveforms first
StopAll_waveforms_first ==
    /\ calls < MaxCalls
    /\ port' = port \o <<create_frame(create_waveform_request(<<>>, WfReqContStop)),
                         create_frame(create_phdb_request(1, 0, 0)),
                         create_frame(create_phdb_request(3, 0, 0))>>
    /\ reqRet' = "Ok"
    /\ reqCall' = Call("stop_all", 0, <<>>)
    /\ calls' = calls + 1
    /\ UNCHANGED <<parserVars, chunkVars, deviceVars, roundTripVars, decodeVars, waveVars,
                   specialVars, builderVars, physVars, streamVars, sliceVars>>

\* SerialDevice::stop_all(): displayed values, trends, then stop_waveforms
StopAll ==
    /\ calls < MaxCalls
    /\ port' = port \o <<create_frame(create_phdb_request(1, 0, 0)),
                         create_frame(create_phdb_request(3, 0, 0)),
                         create_frame(create_waveform_request(<<>>, WfReqContStop))>>
    /\ reqRet' = "Ok"
    /\ reqCall' = Call("stop_all", 0, <<>>)
    /\ calls' = calls + 1
    /\ UNCHANGED <<parserVars, chunkVars, deviceVars, roundTripVars, decodeVars, waveVars,
                   specialVars, builderVars, physVars, streamVars, sliceVars>>

RequestNext ==
    \/ \E interval \in Intervals : RequestDisplayedValues(interval)
    \/ RequestTrend60s
    \/ \E names \in NameLists, checks \in BOOLEAN : RequestWaveforms(names, checks)
    \/ StopWaveforms
    \/ StopAll

SpecRequests == Init /\ [][RequestNext]_vars

(***************************************************************************)
(* decode/waveforms.rs: decode_waveforms on the payloads of waveform       *)
(* records.                                                                *)
(***************************************************************************)
\* the byte at data[d] outside the subrecord headers
SampleByte(d) == (d * 37 + 200) % 256

\* the payload of a waveform record (level 8, main type 1) with a data region of dl
\* bytes, descriptors of these types at these offsets, and at every offset a
\* subrecord header declaring al samples with status st, followed by sample bytes
MkWavePayload(types, offsets, dl, al, st) ==
    LET n == Len(types)
    IN [len |-> HEADER_SIZE + dl,
        at |-> [i \in 0..(HEADER_SIZE + dl - 1) |->
                  IF i < HEADER_SIZE
                  THEN CASE i = 3 -> 8
                         [] i = 16 -> 1
                         [] i \in 18..(18 + 3 * n - 1) ->
                              LET k == ((i - 18) \div 3) + 1
                                  f == (i - 18) % 3
                              IN IF f = 0 THEN offsets[k] % 256
                                 ELSE IF f = 1 THEN offsets[k] \div 256
                                 ELSE types[k]
                         [] i = 20 + 3 * n -> 255
                         [] OTHER -> 0
                  ELSE LET d == i - HEADER_SIZE
                           starts == {offsets[k] : k \in 1..n}
                           inHeader == {o \in starts : d - o \in 0..5}
                       IN IF inHeader = {} THEN SampleByte(d)
                          ELSE LET o == CHOOSE x \in inHeader : \A y \in inHeader : y <= x
                               IN CASE d - o = 0 -> al
                                    [] d - o = 2 -> st
                                    [] OTHER -> 0]]

\* command, ECG1 (300 Hz), unknown
WaveTypes == {0, 1, 200}

WaveOffsets == {0, 8, 300}

WavePayloads ==
    {MkWavePayload(table[1], table[2], dl, al, st) :
        table \in UNION {[1..n -> WaveTypes] \X [1..n -> WaveOffsets] :
                            n \in 1..MaxDescriptors},
        dl \in {16, 24}, al \in 0..MaxSamples, st \in {0, 1}}

\* DriHeader::parse on the payload
WaveParse ==
    /\ wfPc = "frame"
    /\ wfHeader' = DriHeader_parse(wfData)
    /\ wfPc' = IF wfHeader'.kind = "Ok" THEN "parsed" ELSE "rejected"
    /\ UNCHANGED <<wfData, wfOut, parserVars, chunkVars, deviceVars, roundTripVars,
                   decodeVars, requestVars, specialVars, builderVars, physVars, streamVars,
                   sliceVars>>

\* decode_waveforms(&header, data)
WaveDecode ==
    /\ wfPc = "parsed"
    /\ wfOut' = decode_waveforms(wfHeader.header, wfData)
    /\ wfPc' = "decoded"
    /\ UNCHANGED <<wfData, wfHeader, parserVars, chunkVars, deviceVars, roundTripVars,
                   decodeVars, requestVars, specialVars, builderVars, physVars, streamVars,
                   sliceVars>>

WaveNext == WaveParse \/ WaveDecode

InitWaveforms ==
    /\ ParserInit /\ ChunkInit /\ DeviceInit /\ RoundTripIdle /\ DecodeInit /\ RequestInit
    /\ SpecialIdle /\ BuilderIdle /\ PhysIdle /\ StreamIdle /\ SliceIdle
    /\ wfData \in WavePayloads
    /\ wfHeader = ParseNotRun
    /\ wfOut = <<>>
    /\ wfPc = "frame"

SpecWaveforms == InitWaveforms /\ [][WaveNext]_vars

(***************************************************************************)
(* The reserved raw values, each function called on every i16.             *)
(***************************************************************************)
\* every i16
I16 == (0 - 32768)..32767

IsInvalidCall ==
    /\ svFn = "none"
    /\ svFn' = "is_invalid"
    /\ svOut' = {is_invalid(svValue)}
    /\ UNCHANGED <<svValue, parserVars, chunkVars, deviceVars, roundTripVars, decodeVars,
                   requestVars, waveVars, builderVars, physVars, streamVars, sliceVars>>

CheckValidCall ==
    /\ svFn = "none"
    /\ svFn' = "check_valid"
    /\ svOut' = check_valid(svValue)
    /\ UNCHANGED <<svValue, parserVars, chunkVars, deviceVars, roundTripVars, decodeVars,
                   requestVars, waveVars, builderVars, physVars, streamVars, sliceVars>>

ScaleValidI16Call(scale) ==
    /\ svFn = "none"
    /\ svFn' = "scale_valid_i16"
    /\ svOut' = scale_valid_i16(svValue, scale)
    /\ UNCHANGED <<svValue, parserVars, chunkVars, deviceVars, roundTripVars, decodeVars,
                   requestVars, waveVars, builderVars, physVars, streamVars, sliceVars>>

GetSpecialValueCall ==
    /\ svFn = "none"
    /\ svFn' = "get_special_value"
    /\ svOut' = get_special_value(svValue)
    /\ UNCHANGED <<svValue, parserVars, chunkVars, deviceVars, roundTripVars, decodeVars,
                   requestVars, waveVars, builderVars, physVars, streamVars, sliceVars>>

SpecialNext ==
    \/ IsInvalidCall
    \/ CheckValidCall
    \/ \E scale \in {SCALE_PERCENT_100, SCALE_FLOW_10} : ScaleValidI16Call(scale)
    \/ GetSpecialValueCall

InitSpecial ==
    /\ ParserInit /\ ChunkInit /\ DeviceInit /\ RoundTripIdle /\ DecodeInit /\ RequestInit
    /\ WaveIdle /\ BuilderIdle /\ PhysIdle /\ StreamIdle /\ SliceIdle
    /\ svValue \in I16
    /\ svFn = "none"
    /\ svOut = {}

SpecSpecial == InitSpecial /\ [][SpecialNext]_vars

(***************************************************************************)
(* protocol/header.rs: the request builders, called on their own.          *)
(***************************************************************************)
Subtypes == {0, 1, 3, 255}

BuilderIntervals == {0, 5, 255, 256, 300, 65535}

\* class masks; TLC integers are 32-bit signed, so the largest mask drawn is 0x7FFFFFFF
ClassMasks == {0, PHDBCL_REQ_ALL, 16909060, 2147483647}

RequestTypes == {WfReqContStart, WfReqContStop, 258}

RequestedTypes == {1, 8}

PhdbArgs ==
    {BuilderArgs("create_phdb_request", subtype, interval, class_mask, <<>>, 0) :
        subtype \in Subtypes, interval \in BuilderIntervals, class_mask \in ClassMasks}

WaveformArgs ==
    {BuilderArgs("create_waveform_request", 0, 0, 0, waveform_types, request_type) :
        waveform_types \in UNION {[1..n -> RequestedTypes] : n \in 0..MaxRequested},
        request_type \in RequestTypes}

CreatePhdbRequest ==
    /\ bArgs.fn = "create_phdb_request"
    /\ bOut = <<>>
    /\ bOut' = create_phdb_request(bArgs.subtype, bArgs.interval, bArgs.class_mask)
    /\ UNCHANGED <<bArgs, parserVars, chunkVars, deviceVars, roundTripVars, decodeVars,
                   requestVars, waveVars, specialVars, physVars, streamVars, sliceVars>>

CreateWaveformRequest ==
    /\ bArgs.fn = "create_waveform_request"
    /\ bOut = <<>>
    /\ bOut' = create_waveform_request(bArgs.waveform_types, bArgs.request_type)
    /\ UNCHANGED <<bArgs, parserVars, chunkVars, deviceVars, roundTripVars, decodeVars,
                   requestVars, waveVars, specialVars, physVars, streamVars, sliceVars>>

BuilderNext == CreatePhdbRequest \/ CreateWaveformRequest

InitBuilders ==
    /\ ParserInit /\ ChunkInit /\ DeviceInit /\ RoundTripIdle /\ DecodeInit /\ RequestInit
    /\ WaveIdle /\ SpecialIdle /\ PhysIdle /\ StreamIdle /\ SliceIdle
    /\ bArgs \in PhdbArgs \cup WaveformArgs
    /\ bOut = <<>>

SpecBuilders == InitBuilders /\ [][BuilderNext]_vars

(***************************************************************************)
(* decode/physiological.rs: decode_physiological on a subrecord into which *)
(* the monitor wrote one parameter group the way bin/faker.rs writes them: *)
(* status word, label, then the group's first value.                       *)
(***************************************************************************)
\* where create_phdb_frame puts each group, from byte 4 of the subrecord
FakerOffset ==
    [ecg |-> 0, invp1 |-> 16, nibp |-> 72, temp1 |-> 86, temp2 |-> 94, spo2 |-> 118,
     co2 |-> 132, o2 |-> 146, n2o |-> 156, aa |-> 166, flow |-> 178]

\* where decode_basic_class reads each group
DecoderOffset ==
    [ecg |-> 0, invp1 |-> 16, nibp |-> 76, temp1 |-> 90, temp2 |-> 98, spo2 |-> 122,
     co2 |-> 136, o2 |-> 150, n2o |-> 160, aa |-> 170, flow |-> 182]

Groups == DOMAIN FakerOffset

\* status words: nothing set, exists, exists + active, and HR sources 9 and 13
StatusWords == {0, 1, 3, 75, 107}

\* labels: none, bit 3 (lead code 8), leads I/II/III, bits 3..8, lead 3 code 15
Labels == {0, 8, 801, 504, 3840}

RawValues == {7200, -1, -32767}

\* the payload of a record whose subrecord holds that one group, all else zero
PhysPayload(in) ==
    LET b == HEADER_SIZE + 4 + in.offset
    IN [len |-> HEADER_SIZE + in.sublen,
        at |-> [i \in b..(b + 7) |->
                  CASE i = b -> in.status % 256
                    [] i = b + 1 -> (in.status \div 256) % 256
                    [] i = b + 4 -> in.label % 256
                    [] i = b + 5 -> in.label \div 256
                    [] i = b + 6 -> (in.value + 65536) % 256
                    [] i = b + 7 -> ((in.value + 65536) \div 256) % 256
                    [] OTHER -> 0]]

PhysInputs ==
    {PhysIn(group, offset, status, label, value, class, sublen) :
        group \in Groups, offset \in {0, 1}, status \in StatusWords, label \in Labels,
        value \in RawValues, class \in {0, 1},
        sublen \in {PHDB_SUBRECORD_SIZE - 1, PHDB_SUBRECORD_SIZE}}

\* offset 0 stands for the simulator's offset of the group, 1 for the decoder's
PlacedAt(in) ==
    [in EXCEPT !.offset = IF in.offset = 0 THEN FakerOffset[in.group]
                          ELSE DecoderOffset[in.group]]

DecodePhysiological ==
    /\ phIn.group \in Groups
    /\ phOut = DecodeNotRun
    /\ phOut' = decode_physiological(PhysPayload(phIn), Slice(0, phIn.sublen), 1,
                                     phIn.class)
    /\ UNCHANGED <<phIn, parserVars, chunkVars, deviceVars, roundTripVars, decodeVars,
                   requestVars, waveVars, specialVars, builderVars, streamVars, sliceVars>>

PhysNext == DecodePhysiological

InitPhys ==
    /\ ParserInit /\ ChunkInit /\ DeviceInit /\ RoundTripIdle /\ DecodeInit /\ RequestInit
    /\ WaveIdle /\ SpecialIdle /\ BuilderIdle /\ StreamIdle /\ SliceIdle
    /\ phIn \in {PlacedAt(in) : in \in PhysInputs}
    /\ phOut = DecodeNotRun

SpecPhys == InitPhys /\ [][PhysNext]_vars

(***************************************************************************)
(* Frame streams: up to MaxFrames frames made by create_frame, back to     *)
(* back, each with its own opening and closing delimiter, read by a fresh  *)
(* parser.  The parser may join `start` bytes into the first frame, and a  *)
(* stray delimiter may follow frame `stray` (0: none).                     *)
(***************************************************************************)
StreamPayloads == {<<1>>, <<131>>, <<FRAME_CHAR>>, <<1, CTRL_CHAR>>}

PayloadLists == UNION {[1..k -> StreamPayloads] : k \in 1..MaxFrames}

\* the wire bytes of frames i.. of payloads
RECURSIVE Wire(_, _, _)
Wire(payloads, i, stray) ==
    IF i > Len(payloads) THEN <<>>
    ELSE create_frame(payloads[i])
         \o (IF i = stray THEN <<FRAME_CHAR>> ELSE <<>>)
         \o Wire(payloads, i + 1, stray)

\* the bytes the parser is given
StreamOf(in) ==
    LET wire == Wire(in.payloads, 1, in.stray)
    IN SubSeq(wire, in.start + 1, Len(wire))

StreamInputs ==
    {in \in {StreamIn(payloads, start, stray) :
                payloads \in PayloadLists, start \in 0..3, stray \in 0..(MaxFrames - 1)} :
        in.stray < Len(in.payloads)}

\* one process_bytes call on the whole stream
ProcessBytesOnce ==
    /\ mfIn.payloads # <<>>
    /\ mfOut.pc = "idle"
    /\ LET r == process_bytes(FrameParser_new, StreamOf(mfIn))
       IN mfOut' = StreamOut("process_bytes", r.err, r.frames, r.parser.state)
    /\ UNCHANGED <<mfIn, parserVars, chunkVars, deviceVars, roundTripVars, decodeVars,
                   requestVars, waveVars, specialVars, builderVars, physVars, sliceVars>>

\* one process_byte call per byte of the stream, keeping every frame and error
ProcessByteEach ==
    /\ mfIn.payloads # <<>>
    /\ mfOut.pc = "idle"
    /\ LET r == byte_by_byte(FrameParser_new, StreamOf(mfIn), <<>>)
       IN mfOut' = StreamOut("process_byte", "none", r.events, r.parser.state)
    /\ UNCHANGED <<mfIn, parserVars, chunkVars, deviceVars, roundTripVars, decodeVars,
                   requestVars, waveVars, specialVars, builderVars, physVars, sliceVars>>

StreamNext == ProcessBytesOnce \/ ProcessByteEach

InitStreams ==
    /\ ParserInit /\ ChunkInit /\ DeviceInit /\ RoundTripIdle /\ DecodeInit /\ RequestInit
    /\ WaveIdle /\ SpecialIdle /\ BuilderIdle /\ PhysIdle /\ SliceIdle
    /\ mfIn \in StreamInputs
    /\ mfOut = StreamOut("idle", "none", <<>>, "WaitingForStart")

SpecStreams == InitStreams /\ [][StreamNext]_vars

(***************************************************************************)
(* Subrecord slicing: get_subrecord_data on a header with up to            *)
(* MaxSubrecords descriptors, over a data region of data_len bytes.        *)
(***************************************************************************)
SliceOffsets == {0, 2, 5}

SliceDataLens == {0, 3, 5}

SliceInputs ==
    {SliceIn(offsets, data_len, index) :
        offsets \in UNION {[1..n -> SliceOffsets] : n \in 0..MaxSubrecords},
        data_len \in SliceDataLens, index \in 0..MaxSubrecords}

\* the header whose descriptors carry these offsets
HeaderWith(offsets) ==
    [NoHeader EXCEPT !.subrecords = [i \in 1..Len(offsets) |->
                                        [offset |-> offsets[i], sr_type |-> 1]]]

GetSubrecordData ==
    /\ sdIn.index >= 0
    /\ sdOut = SliceNotRun
    /\ sdOut' = get_subrecord_data(HeaderWith(sdIn.offsets), sdIn.data_len, sdIn.index)
    /\ UNCHANGED <<sdIn, parserVars, chunkVars, deviceVars, roundTripVars, decodeVars,
                   requestVars, waveVars, specialVars, builderVars, physVars, streamVars>>

SliceNext == GetSubrecordData

InitSlices ==
    /\ ParserInit /\ ChunkInit /\ DeviceInit /\ RoundTripIdle /\ DecodeInit /\ RequestInit
    /\ WaveIdle /\ SpecialIdle /\ BuilderIdle /\ PhysIdle /\ StreamIdle
    /\ sdIn \in SliceInputs
    /\ sdOut = SliceNotRun

SpecSlices == InitSlices /\ [][SliceNext]_vars

(***************************************************************************)
(* Properties of the framing engine.                                       *)
(***************************************************************************)
\* the sum of the bytes of data modulo 256
RECURSIVE SumMod256(_)
SumMod256(data) == IF data = <<>> THEN 0 ELSE (Head(data) + SumMod256(Tail(data))) % 256

\* C4: whenever process_byte returns ChecksumError or IncompleteFrame, the parser is in
\* WaitingForStart right after, the byte that returned the error is the closing
\* delimiter, and a well-formed frame fed next (create_frame of a non-empty payload)
\* is emitted alone, with its original payload and no error.
C4_ErrorResync ==
    IsErr(ret) =>
        /\ state = "WaitingForStart"
        /\ Last(fed) = FRAME_CHAR
        /\ \A P \in ResyncPayloads :
              LET r == process_bytes([state |-> state, buffer |-> buffer], create_frame(P))
              IN /\ r.err = "none"
                 /\ r.frames = <<Res("frame", P, SumMod256(P))>>
                 /\ r.parser.state = "WaitingForStart"

\* C4 witness: a short frame or a frame with a bad checksum returned its error, the
\* bytes of create_frame(P) were fed right after it, and the frame P was emitted.
C4_Witness ==
    \E bad \in {<<FRAME_CHAR, 1, FRAME_CHAR>>, <<FRAME_CHAR, 1, 94, FRAME_CHAR>>} :
      \E P \in ResyncPayloads :
        /\ fed = bad \o create_frame(P)
        /\ Len(events) = 2
        /\ IsErr(events[1])
        /\ events[2] = Res("frame", P, SumMod256(P))

\* every emitted frame has a data byte and carries the sum of its data
FramesValid ==
    \A i \in 1..Len(events) :
        events[i].kind = "frame" =>
            /\ Len(events[i].data) >= 1
            /\ events[i].checksum = SumMod256(events[i].data)

\* a step that closes a frame whose last byte is not the sum of the bytes before it
\* emits no frame
BadCloseNotEmitted ==
    (/\ state = "InFrame"
     /\ fed' = Append(fed, FRAME_CHAR)
     /\ buffer # <<>>
     /\ Last(buffer) # SumMod256(Front(buffer)))
    => (ret'.kind # "frame" /\ \A i \in 1..Len(events') : i > Len(events) => events'[i].kind # "frame")

\* C5: every frame the parser emits has at least one data byte and checksum = sum of
\* its data mod 256, and a closed frame whose last byte differs from that sum is never
\* emitted as a frame.
C5_EmittedFramesValid == []FramesValid /\ [][BadCloseNotEmitted]_vars

\* C5 witness: one frame was emitted and one closed frame was refused for its checksum
C5_Witness ==
    \E i, j \in 1..Len(events) :
        events[i].kind = "frame" /\ events[j].kind = "ChecksumError"

\* C1: for every byte stream and every cut of it into chunks, the process_bytes calls
\* on the chunks return the same frames and framing errors, in the same order, as
\* process_byte called on each byte: once every byte collected has been handed over,
\* the two event sequences are equal.
C1_ChunksEqualByteByByte == pending = <<>> => cevents = events

\* the frames among a sequence of events
Frames(evs) == SelectSeq(evs, LAMBDA e : e.kind = "frame")

\* the checksum-valid frames present in a byte stream, in the order of their closing
\* delimiters
ValidFrames(stream) == Frames(byte_by_byte(FrameParser_new, stream, <<>>).events)

IsPrefix(s, t) == Len(s) <= Len(t) /\ s = SubSeq(t, 1, Len(s))

\* C2: across successive read_frame / try_read_frame calls, the frames returned are the
\* checksum-valid frames of the bytes read, each once, in order, none skipped: at any
\* time the frames returned are a prefix of the valid frames of the stream read.
C2_NoFrameSkipped == IsPrefix(delivered, ValidFrames(fed))

\* C3: round trip: for every non-empty payload P, create_frame(P) fed to a fresh
\* FrameParser gives exactly one frame, with data P and checksum the sum of P mod 256,
\* and no error.
C3_RoundTrip ==
    (rtPc = "parsed" /\ txPayload # <<>>) =>
        /\ rxResult.err = "none"
        /\ rxResult.frames = <<Res("frame", txPayload, SumMod256(txPayload))>>

\* C3 witness: a payload holding 0x7E and 0x7D whose checksum byte is itself stuffed
\* went through create_frame and came back
C3_Witness ==
    /\ rtPc = "parsed"
    /\ \E i, j \in 1..Len(txPayload) : txPayload[i] = FRAME_CHAR /\ txPayload[j] = CTRL_CHAR
    /\ SumMod256(txPayload) \in {FRAME_CHAR, CTRL_CHAR}
    /\ Len(rxResult.frames) = 1
    /\ rxResult.frames[1].data = txPayload

(***************************************************************************)
(* Properties of the header parser and the decoder.                        *)
(***************************************************************************)
\* C6: for every frame payload the pipeline DriHeader::parse, extract_data,
\* decode_frame ends with Ok or Err and never reads outside the payload: the main
\* loop is never ended by a panic, payloads of 40 or 41 bytes with no 0xFF type byte
\* in the first seven descriptors included.
C6_PipelineNeverPanics == mpc # "aborted"

\* C7: the outcome the consumer sees for a frame with a recognised but unsupported
\* main type (alarm, network, event) differs from the outcome it sees for a waveform
\* record with no decodable subrecord (no record this turn) and from the outcome of a
\* structural error, and the last two differ from each other.
C7_OutcomesDistinguishable ==
    (mpc = "read_frame" /\ outcome # "none yet") =>
        LET unsupportedBefore ==
                prev.kind = "Ok" /\ prev.r_maintype \in {"Alarm", "Network", "Fo"}
            structuralBefore == prev.kind = "Err"
            noRecordNow ==
                /\ hdr.kind = "Ok"
                /\ hdr.header.r_maintype = "Wave"
                /\ decode_waveforms(hdr.header, frameData) = <<>>
            structuralNow == hdr.kind = "Err" \/ decoded.kind = "Err"
        IN /\ (unsupportedBefore /\ noRecordNow) => prev.outcome # outcome
           /\ (unsupportedBefore /\ structuralNow) => prev.outcome # outcome
           /\ (structuralBefore /\ noRecordNow) => prev.outcome # outcome

\* C8: for a header whose main type is alarm, network or event, decode_frame returns
\* Ok(None), never an error and never a record, whatever the descriptor table and
\* the data region hold.
C8_UnsupportedTypesGiveNone ==
    (decoded.kind # "NotRun" /\ hdr.header.r_maintype \in {"Alarm", "Network", "Fo"})
        => decoded = OkNone

\* C8 witness: decode_frame returned Ok(None) for an event record of 1128 bytes whose
\* header lists eight subrecords.
C8_Witness ==
    /\ decoded = OkNone
    /\ hdr.header.r_maintype = "Fo"
    /\ Len(hdr.header.subrecords) = MAX_SUBRECORDS
    /\ frameData.len = HEADER_SIZE + PHDB_SUBRECORD_SIZE

\* C9: for an input of at least 40 bytes DriHeader::parse returns
\* UnsupportedDriLevel(b) exactly when the level byte b (byte 3) is outside 2..=10,
\* whatever the main type and the descriptor table are; for a shorter input it
\* returns IncompleteFrame.
C9_LevelCheckedFirst ==
    hdr.kind # "NotRun" =>
        LET b == ByteAt(frameData, 3)
        IN /\ frameData.len >= HEADER_SIZE =>
                /\ (hdr.kind = "Err" /\ hdr.err.name = "UnsupportedDriLevel")
                       <=> b \notin 2..10
                /\ hdr.err.name = "UnsupportedDriLevel" => hdr.err.value = b
           /\ frameData.len < HEADER_SIZE =>
                (hdr.kind = "Err" /\ hdr.err = DriError("IncompleteFrame", -1))

\* C9 witness: parse returned UnsupportedDriLevel(11) for a 40-byte input whose main
\* type code is unknown as well and whose descriptor table holds no end marker.
C9_Witness ==
    /\ hdr.err = DriError("UnsupportedDriLevel", 11)
    /\ frameData.len = HEADER_SIZE
    /\ DriMainType_from_u16(U16At(frameData, 16)) = "None"
    /\ \A i \in 0..6 : ByteAt(frameData, 20 + 3 * i) # 255

\* C10: a header with a valid level whose 16-bit main type code is none of 0, 1, 4,
\* 5, 8 is rejected by DriHeader::parse with an error that names an unknown main type
\* and carries the 16-bit code unchanged; no header and no record come of it.
C10_UnknownMainTypeReported ==
    (/\ hdr.kind # "NotRun"
     /\ frameData.len >= HEADER_SIZE
     /\ ByteAt(frameData, 3) \in 2..10
     /\ DriMainType_from_u16(U16At(frameData, 16)) = "None")
    => /\ hdr.kind = "Err"
       /\ hdr.err = DriError("UnknownMainType", U16At(frameData, 16))
       /\ hdr.header = NoHeader
       /\ decoded.kind \in {"NotRun"}

(***************************************************************************)
(* Properties of the requests.                                             *)
(***************************************************************************)
\* the sum of data[lo..hi], by halves
RECURSIVE ByteSum(_, _, _)
ByteSum(data, lo, hi) ==
    IF lo > hi THEN 0
    ELSE IF lo = hi THEN data[lo]
    ELSE ByteSum(data, lo, (lo + hi) \div 2) + ByteSum(data, ((lo + hi) \div 2) + 1, hi)

\* the payload of a well-formed frame, or <<>>: the bytes between the delimiters with
\* every escape byte dropped and bit 5 set in the byte after it, less the trailing
\* checksum, which must be the sum of the bytes before it
Unframed(bytes) ==
    LET n == Len(bytes)
        body == SubSeq(bytes, 2, n - 1)
        kept == {i \in 1..(n - 2) : body[i] # CTRL_CHAR}
        value(i) == IF i > 1 /\ body[i - 1] = CTRL_CHAR THEN OrBit5(body[i]) ELSE body[i]
        nth(k) == CHOOSE i \in kept : Cardinality({j \in kept : j < i}) = k - 1
        unstuffed == [k \in 1..Cardinality(kept) |-> value(nth(k))]
    IN IF /\ n >= 4
          /\ bytes[1] = FRAME_CHAR /\ bytes[n] = FRAME_CHAR
          /\ \A i \in 1..(n - 2) : body[i] # FRAME_CHAR
          /\ body[n - 2] # CTRL_CHAR
          /\ Len(unstuffed) >= 2
          /\ Last(unstuffed) = ByteSum(unstuffed, 1, Len(unstuffed) - 1) % 256
       THEN Front(unstuffed)
       ELSE <<>>

\* the exact sum of the codebook sample rates of the recognised names
TrueTotalRate(waveform_names) ==
    LET waveforms == filter_map_names(waveform_names)
    IN rate_sum(waveforms, 1, Len(waveforms))

\* the step is a call of the request op
IsCall(op) == calls' = calls + 1 /\ reqCall'.op = op

\* C11: request_waveforms returns an error and writes nothing whenever the sum of the
\* sample rates of the recognised names exceeds 600 Hz; when the sum is at most 600 Hz
\* and a name is recognised it writes exactly one framed waveform-start request.
C11_RateLimitEnforced ==
    [][IsCall("request_waveforms") =>
          LET total == TrueTotalRate(reqCall'.names)
              recognised == filter_map_names(reqCall'.names)
          IN /\ total > MAX_TOTAL_SAMPLE_RATE => (reqRet' = "Err" /\ port' = port)
             /\ (total <= MAX_TOTAL_SAMPLE_RATE /\ recognised # <<>>) =>
                   /\ reqRet' = "Ok"
                   /\ Len(port') = Len(port) + 1
                   /\ SubSeq(port', 1, Len(port)) = port
                   /\ LET request == Unframed(Last(port'))
                      IN /\ Len(request) = HEADER_SIZE + 32
                         /\ request[17] = 1 /\ request[18] = 0
                         /\ request[41] = WfReqContStart /\ request[42] = 0]_vars

\* request is a displayed-values or trend request of this subtype with interval 0
IsPhdbStop(request, subtype) ==
    /\ Len(request) = HEADER_SIZE + 9
    /\ request[17] = 0 /\ request[18] = 0
    /\ request[41] = subtype
    /\ request[42] = 0 /\ request[43] = 0

\* request is a waveform request of type 1 (stop)
IsWaveformStop(request) ==
    /\ Len(request) = HEADER_SIZE + 32
    /\ request[17] = 1 /\ request[18] = 0
    /\ request[41] = WfReqContStop /\ request[42] = 0

\* the payloads of the frames the step wrote
Sent == [i \in 1..(Len(port') - Len(port)) |-> Unframed(port'[Len(port) + i])]

WireInterval(asked) == IF asked = 0 THEN 0 ELSE IF asked < 5 THEN 5 ELSE asked

\* C13: the displayed-values request carries interval 0 when the caller asks for 0,
\* 5 when the caller asks for 1..4, and the caller's value when it is 5 or more.
C13_IntervalOnWire ==
    (reqCall.op = "request_displayed_values" /\ reqRet = "Ok") =>
        LET request == Unframed(Last(port))
        IN /\ Len(request) = HEADER_SIZE + 9
           /\ request[41] = 1
           /\ request[42] + 256 * request[43] = WireInterval(reqCall.interval)

\* C14: one record pull reads the byte source at most once: within one call of
\* read_frame, and of try_read_frame, port.read is invoked no more than one time.
C14_OneReadPerPull == reads <= 1

(***************************************************************************)
(* Properties of the waveform decoder.                                     *)
(***************************************************************************)
\* the descriptors decode_waveforms was given, and its data region
WfSubrecords == wfHeader.header.subrecords

WfDataLen == wfData.len - HEADER_SIZE

WfByte(d) == ByteAt(wfData, HEADER_SIZE + d)

\* the slice of descriptor i (from 1): from its offset to the next descriptor's
\* offset, or to the end of the data region for the last one
WfStart(i) == WfSubrecords[i].offset

WfEnd(i) == IF i < Len(WfSubrecords) THEN WfSubrecords[i + 1].offset ELSE WfDataLen

\* descriptor i is a known data waveform with a slice that holds the 6-byte header
WfEmits(i) ==
    /\ WfSubrecords[i].sr_type \in WaveformTypeCodes \ {0}
    /\ WfStart(i) <= WfDataLen /\ WfEnd(i) <= WfDataLen /\ WfStart(i) <= WfEnd(i)
    /\ WfEnd(i) - WfStart(i) >= 6

WfEmitting == {i \in 1..Len(WfSubrecords) : WfEmits(i)}

\* the descriptor of the k-th emitted waveform
WfDescriptorOf(k) ==
    CHOOSE i \in WfEmitting : Cardinality({j \in WfEmitting : j < i}) = k - 1

\* the sample count its subrecord header declares, and the whole samples that fit
WfDeclared(i) == WfByte(WfStart(i)) + 256 * WfByte(WfStart(i) + 1)

WfFit(i) == (WfEnd(i) - WfStart(i) - 6) \div 2

\* sample s (from 1) of descriptor i, as a signed 16-bit little-endian number
WfSample(i, s) ==
    LET u == WfByte(WfStart(i) + 4 + 2 * s) + 256 * WfByte(WfStart(i) + 5 + 2 * s)
    IN IF u >= 32768 THEN u - 65536 ELSE u

\* C15: for every WaveformData decode_waveforms emits, the number of decoded samples
\* is at most the sample count its subrecord header declares, and it is smaller
\* than the declared count exactly when the emitted gap flag is true.
C15_GapIffTruncated ==
    wfPc = "decoded" =>
        /\ Len(wfOut) = Cardinality(WfEmitting)
        /\ \A k \in 1..Len(wfOut) :
              LET declared == WfDeclared(WfDescriptorOf(k))
              IN /\ Len(wfOut[k].samples) <= declared
                 /\ Len(wfOut[k].samples) < declared <=> wfOut[k].status.gap

\* C16: decode_waveforms emits one WaveformData for each descriptor that is a known
\* data waveform with a slice of at least 6 bytes, in descriptor-table order, each
\* decoded from its own slice; a command descriptor, an unknown type, an
\* unobtainable slice and a slice under 6 bytes are skipped and change nothing else.
C16_OnePerDataDescriptorInOrder ==
    wfPc = "decoded" =>
        /\ Len(wfOut) = Cardinality(WfEmitting)
        /\ \A k \in 1..Len(wfOut) :
              LET i == WfDescriptorOf(k)
                  w == wfOut[k]
                  n == IF WfDeclared(i) < WfFit(i) THEN WfDeclared(i) ELSE WfFit(i)
              IN /\ w.waveform_type = WfSubrecords[i].sr_type
                 /\ w.sample_rate = samples_per_second(WfSubrecords[i].sr_type)
                 /\ Len(w.samples) = n
                 /\ \A s \in 1..n : w.samples[s] = WfSample(i, s)
                 /\ w.status.gap = (WfByte(WfStart(i) + 2) % 2 = 1)

\* C16 witness: a record whose first descriptor is a command at an unobtainable
\* offset and whose second and last is an ECG waveform was decoded to the one
\* waveform, with two samples.
C16_Witness ==
    /\ wfPc = "decoded"
    /\ Len(WfSubrecords) = 2
    /\ WfSubrecords[1].sr_type = 0 /\ WfSubrecords[1].offset > WfDataLen
    /\ WfSubrecords[2].sr_type = 1
    /\ Len(wfOut) = 1
    /\ Len(wfOut[1].samples) = 2

(***************************************************************************)
(* Properties of the reserved raw values.                                  *)
(***************************************************************************)
\* C17: for every i16 v, is_invalid(v), check_valid(v) and scale_valid_i16(v, s)
\* report the value absent exactly when v <= -32001, and get_special_value(v)
\* returns a kind exactly when v <= -32001: Invalid for -32767, NotUpdated for
\* -32766, UnderRange for -32764, OverRange for -32763, NotCalibrated for -32762,
\* one of the five for every other v <= -32001.
C17_AbsentIffAtOrBelowLimit ==
    LET absent == svValue <= -32001
    IN /\ svFn = "is_invalid" => svOut = {absent}
       /\ svFn = "check_valid" => svOut = IF absent THEN {} ELSE {svValue}
       /\ svFn = "scale_valid_i16" => (svOut = {} <=> absent)
       /\ svFn = "get_special_value" =>
             /\ svOut # {} <=> absent
             /\ svOut \subseteq {"Invalid", "NotUpdated", "UnderRange", "OverRange",
                                 "NotCalibrated"}
             /\ svValue = -32767 => svOut = {"Invalid"}
             /\ svValue = -32766 => svOut = {"NotUpdated"}
             /\ svValue = -32764 => svOut = {"UnderRange"}
             /\ svValue = -32763 => svOut = {"OverRange"}
             /\ svValue = -32762 => svOut = {"NotCalibrated"}

\* C17 witness: is_invalid was called on the limit itself and reported it invalid.
C17_Witness == svFn = "is_invalid" /\ svValue = -32001 /\ svOut = {TRUE}

(***************************************************************************)
(* Properties of the physiological decoder.                                *)
(***************************************************************************)
\* C18: a physiological record whose first subrecord has a valid type and an
\* obtainable slice still yields a physiological record, not an error, when that
\* slice is shorter than 1088 bytes.
C18_ShortSubrecordStillDecoded ==
    (/\ decoded.kind # "NotRun"
     /\ hdr.header.r_maintype = "Phdb"
     /\ hdr.header.subrecords # <<>>
     /\ PhdbSubrecordType_from_u8(hdr.header.subrecords[1].sr_type) # {}
     /\ LET sub == get_subrecord_data(hdr.header, frameData.len - 40, 0)
        IN sub.kind = "Ok" /\ sub.hi - sub.lo < 1088)
    => decoded.kind = "Some"

(***************************************************************************)
(* Properties of the request builders.  Byte i of the claim is bOut[i + 1]. *)
(***************************************************************************)
\* C19: create_phdb_request returns exactly 49 bytes: bytes 0-1 hold 49
\* little-endian, bytes 2-15 are zero, bytes 16-17 hold main type 0, bytes 18-20
\* the first descriptor (offset 0, type 0), byte 23 is 0xFF, byte 40 the subtype,
\* bytes 41-42 the interval little-endian, bytes 43-46 the class mask
\* little-endian, bytes 47-48 zero; for (1, 5, 0x000E) the request bytes are
\* 31 00 / 01 / 05 00 / 0E 00 00 00.
C19_PhdbRequestLayout ==
    (bArgs.fn = "create_phdb_request" /\ bOut # <<>>) =>
        /\ Len(bOut) = 49
        /\ bOut[1] = 49 /\ bOut[2] = 0
        /\ \A i \in 2..20 : bOut[i + 1] = 0
        /\ bOut[23 + 1] = 255
        /\ bOut[40 + 1] = bArgs.subtype
        /\ bOut[41 + 1] + 256 * bOut[42 + 1] = bArgs.interval
        /\ bOut[43 + 1] + 256 * bOut[44 + 1] + 65536 * bOut[45 + 1]
               + 16777216 * bOut[46 + 1] = bArgs.class_mask
        /\ \A i \in 41..46 : bOut[i + 1] \in 0..255
        /\ bOut[47 + 1] = 0 /\ bOut[48 + 1] = 0
        /\ (bArgs.subtype = 1 /\ bArgs.interval = 5 /\ bArgs.class_mask = 14) =>
               /\ SubSeq(bOut, 1, 2) = <<49, 0>>
               /\ SubSeq(bOut, 41, 47) = <<1, 5, 0, 14, 0, 0, 0>>

\* C19 witness: the request for displayed values every 5 s, all classes, was built.
C19_Witness ==
    /\ bArgs.fn = "create_phdb_request"
    /\ bArgs.subtype = 1 /\ bArgs.interval = 5 /\ bArgs.class_mask = 14
    /\ Len(bOut) = 49

PhysGroups == phOut.record.groups

\* the first value of a group of the decoded record
FirstValue(group) ==
    CASE group = "ecg" -> PhysGroups.ecg.hr
      [] group = "invp1" -> PhysGroups.invp1.sys
      [] group = "nibp" -> PhysGroups.nibp.sys
      [] group = "temp1" -> PhysGroups.temp1.temp
      [] group = "temp2" -> PhysGroups.temp2.temp
      [] group = "spo2" -> PhysGroups.spo2.spo2
      [] group = "flow" -> PhysGroups.flow.rr
      [] OTHER -> PhysGroups[group].et

\* the value written, as a decoded field: absent when reserved, else raw times the
\* scale of the group's first field (1 for the rates, 1/100 for the rest)
WrittenValue ==
    IF phIn.value <= -32001 THEN {}
    ELSE {[num |-> phIn.value, den |-> IF phIn.group \in {"ecg", "flow"} THEN 1 ELSE 100]}

\* a Basic-class record was decoded
BasicDecoded == phOut.kind = "Some" /\ phIn.class = 0

\* C21: the Basic-class decoder reads each group at its canonical offset from byte 4
\* of the subrecord (ECG 0, invasive pressure 1 at 16, NIBP 72, temperatures 86 and
\* 94, SpO2 118, CO2 132, O2 146, N2O 156, agent 166, flow 178): a value written at
\* the canonical offset of a group, as create_phdb_frame writes it, is the value
\* decoded for that group.
C21_CanonicalOffsetsDecoded ==
    (BasicDecoded /\ phIn.offset = FakerOffset[phIn.group]) =>
        FirstValue(phIn.group) = WrittenValue

\* C22: in a decoded NIBP group, exists is bit 0 and active is bit 1 of the group's
\* status word, and auto, stat, measuring, stasis, calibrating and
\* data-older-than-60s are bits 3, 4, 5, 6, 7 and 8 of its label word.
C22_NibpStatusBits ==
    (BasicDecoded /\ phIn.group = "nibp") =>
        LET s == PhysGroups.nibp.status
        IN /\ s.exists = ((phIn.status % 2) = 1)
           /\ s.active = (((phIn.status \div 2) % 2) = 1)
           /\ s.auto_mode = (((phIn.label \div 8) % 2) = 1)
           /\ s.stat_mode = (((phIn.label \div 16) % 2) = 1)
           /\ s.measuring = (((phIn.label \div 32) % 2) = 1)
           /\ s.stasis_on = (((phIn.label \div 64) % 2) = 1)
           /\ s.calibrating = (((phIn.label \div 128) % 2) = 1)
           /\ s.data_older_than_60s = (((phIn.label \div 256) % 2) = 1)

\* the lead value a 4-bit lead code stands for: codes 8..15 are NotSelected (0)
LeadOf(code) == IF code <= 7 THEN {code} ELSE {0}

\* C23: in the ECG group, lead k is decoded from label bits 4(k-1) .. 4(k-1)+3 and
\* the HR source from status bits 3..6; a lead code without a codebook entry
\* (8..15) decodes as NotSelected, and no lead code makes the record fail.
C23_EcgLeads ==
    (phOut.kind # "NotRun" /\ phIn.group = "ecg" /\ phIn.class = 0
        /\ phIn.sublen >= 1088) =>
        /\ phOut.kind = "Some"
        /\ PhysGroups.ecg.lead1 = LeadOf(phIn.label % 16)
        /\ PhysGroups.ecg.lead2 = LeadOf((phIn.label \div 16) % 16)
        /\ PhysGroups.ecg.lead3 = LeadOf((phIn.label \div 256) % 16)
        /\ PhysGroups.ecg.hr_source \subseteq {(phIn.status \div 8) % 16}
        /\ (phIn.status \div 8) % 16 <= 12 => PhysGroups.ecg.hr_source # {}

(***************************************************************************)
(* Properties of the escape state                                          *)
(***************************************************************************)
\* what one call of process_byte in NeedUnstuff, or on an escape in InFrame, does
EscapeStep ==
    LET byte == Last(fed')
    IN /\ state = "NeedUnstuff" =>
            /\ buffer' = Append(buffer, OrBit5(byte))
            /\ state' = "InFrame"
            /\ ret'.kind = "none"
            /\ events' = events
       /\ (state = "InFrame" /\ byte = CTRL_CHAR) =>
            /\ buffer' = buffer
            /\ state' = "NeedUnstuff"
            /\ ret'.kind = "none"
            /\ events' = events

\* C25: in NeedUnstuff every input byte, 0x7E and 0x7D included, is consumed as data:
\* the parser appends (byte OR 0x20), returns to InFrame and emits neither a frame nor
\* an error; a 0x7D seen in InFrame appends nothing and only moves to NeedUnstuff.
C25_EscapedByteIsData == [][fed' # fed => EscapeStep]_vars

\* a delimiter and an escape character were each taken as data right after an escape
C25_Witness ==
    /\ Len(fed) >= 5
    /\ SubSeq(fed, Len(fed) - 3, Len(fed)) = <<CTRL_CHAR, CTRL_CHAR, CTRL_CHAR, FRAME_CHAR>>
    /\ state = "InFrame"
    /\ buffer = <<CTRL_CHAR, FRAME_CHAR>>
    /\ ret.kind = "none"
    /\ events = <<>>

(***************************************************************************)
(* Properties of the frame buffer                                          *)
(***************************************************************************)
\* wire bytes with every escape byte dropped and bit 5 set in the byte after it
RECURSIVE Unstuffed(_)
Unstuffed(s) ==
    IF s = <<>> THEN <<>>
    ELSE IF Head(s) # CTRL_CHAR THEN <<Head(s)>> \o Unstuffed(Tail(s))
    ELSE IF Len(s) = 1 THEN <<>>
    ELSE <<OrBit5(s[2])>> \o Unstuffed(SubSeq(s, 3, Len(s)))

\* the state the parser was in after the first k bytes fed
StateAfter(k) == byte_by_byte(FrameParser_new, SubSeq(fed, 1, k), <<>>).parser.state

\* the positions in fed of the delimiters that opened a frame
Openings == {i \in 1..Len(fed) : fed[i] = FRAME_CHAR /\ StateAfter(i - 1) = "WaitingForStart"}

\* the frame just emitted is the unstuffed bytes between its own delimiters: the last
\* opening before the delimiter that closed it, and that closing delimiter
OwnBytesOnly ==
    ret.kind = "frame" =>
        LET close == Len(fed)
            open == CHOOSE i \in Openings : \A j \in Openings : j <= i
        IN /\ Openings # {}
           /\ Append(ret.data, ret.checksum) = Unstuffed(SubSeq(fed, open + 1, close - 1))

\* the buffer is empty after every opening delimiter
OpensEmpty == (state = "WaitingForStart" /\ state' = "InFrame") => buffer' = <<>>

\* C27: the payload of every emitted frame consists only of the unstuffed bytes between
\* that frame's opening and closing delimiter; bytes left in the buffer by an earlier
\* frame (IncompleteFrame, ChecksumError or success) never appear in a later frame,
\* because the buffer is empty at every WaitingForStart -> InFrame transition.
C27_NoStaleBytes == []OwnBytesOnly /\ [][OpensEmpty]_vars

\* a frame was emitted right after a frame that left bytes in the buffer: one that
\* failed, or one that succeeded
C27_Witness ==
    /\ Len(events) = 2
    /\ events[1].kind \in {"IncompleteFrame", "frame"}
    /\ ret.kind = "frame"
    /\ ret = events[2]
    /\ buffer = ret.data

(***************************************************************************)
(* Properties of frame streams                                             *)
(***************************************************************************)
\* the frames of payloads[from..], as the parser emits a frame
ExpectedFrames(payloads, from) ==
    [i \in 1..(Len(payloads) - from + 1) |->
        Res("frame", payloads[i + from - 1], SumMod256(payloads[i + from - 1]))]

IsSuffix(s, t) == Len(s) <= Len(t) /\ s = SubSeq(t, Len(t) - Len(s) + 1, Len(t))

\* C26: k well-formed frames (create_frame of a non-empty payload) back to back, each
\* with its own opening and closing 0x7E, passed to a fresh FrameParser in one
\* process_bytes call, return exactly those k frames, in order, with their original
\* payloads.
C26_BackToBackFrames ==
    (mfOut.pc = "process_bytes" /\ mfIn.start = 0 /\ mfIn.stray = 0) =>
        /\ mfOut.err = "none"
        /\ mfOut.events = ExpectedFrames(mfIn.payloads, 1)

\* three frames with different payloads, two of them with escaped bytes, came back
C26_Witness ==
    /\ mfIn = StreamIn(<< <<1>>, <<FRAME_CHAR>>, <<1, CTRL_CHAR>> >>, 0, 0)
    /\ mfOut.pc = "process_bytes"
    /\ Len(mfOut.events) = 3

\* C24: a parser that starts in WaitingForStart at an arbitrary position inside a
\* stream of well-formed frames, each with its own opening and closing 0x7E, or that
\* meets a stray 0x7E between two frames, loses at most the frame in progress and
\* emits every later frame: after joining inside frame 1 every frame from frame 2 on
\* is emitted, and after a stray delimiter behind frame j the frames up to j and
\* every frame from j + 2 on are emitted.
C24_ResyncAfterMisalignment ==
    mfOut.pc = "process_byte" =>
        LET k == Len(mfIn.payloads)
            emitted == Frames(mfOut.events)
        IN /\ (mfIn.start > 0 /\ mfIn.stray = 0) =>
                IsSuffix(ExpectedFrames(mfIn.payloads, 2), emitted)
           /\ (mfIn.start = 0 /\ mfIn.stray > 0) =>
                /\ IsPrefix(SubSeq(ExpectedFrames(mfIn.payloads, 1), 1, mfIn.stray), emitted)
                /\ IsSuffix(ExpectedFrames(mfIn.payloads, mfIn.stray + 2), emitted)

(***************************************************************************)
(* Properties of subrecord slicing                                         *)
(***************************************************************************)
\* C30: for every descriptor list and data region, get_subrecord_data(data, i) with i
\* a valid index returns exactly data[offset_i .. end], where end is offset_(i+1) when
\* descriptor i+1 exists and the length of data otherwise; it returns an error, and
\* never an out-of-range slice, when offset_i or end exceeds the length of data or
\* offset_i > end, and an error when i is not a valid index.
C30_SubrecordSlice ==
    sdOut.kind # "NotRun" =>
        LET n == Len(sdIn.offsets)
            i == sdIn.index
            len == sdIn.data_len
            offset(j) == sdIn.offsets[j + 1]
            end == IF i + 1 < n THEN offset(i + 1) ELSE len
        IN /\ i >= n => sdOut.kind = "Err"
           /\ (i < n /\ (offset(i) > len \/ end > len \/ offset(i) > end)) =>
                sdOut.kind = "Err"
           /\ (i < n /\ offset(i) <= end /\ end <= len) =>
                sdOut = Slice(offset(i), end)
           /\ sdOut.kind = "Ok" => (0 <= sdOut.lo /\ sdOut.lo <= sdOut.hi /\ sdOut.hi <= len)

\* the middle one of three subrecords was sliced up to the start of the third
C30_Witness ==
    /\ sdIn = SliceIn(<<0, 2, 5>>, 5, 1)
    /\ sdOut = Slice(2, 5)

(***************************************************************************)
(* Properties of the waveform request                                      *)
(***************************************************************************)
\* the waveform type slots of a waveform request
RequestedSlots(request) == {request[j] : j \in (HEADER_SIZE + 5)..(HEADER_SIZE + 12)}

\* C28: every waveform type request_waveforms accepts appears in the request it
\* transmits: when more than 8 recognised names pass the rate check the call either
\* fails or transmits them all, and never transmits only the first eight.
C28_AcceptedTypesTransmitted ==
    [][(IsCall("request_waveforms") /\ reqRet' = "Ok") =>
          LET recognised == filter_map_names(reqCall'.names)
              request == Unframed(Last(port'))
          IN /\ Len(port') = Len(port) + 1
             /\ Len(request) = HEADER_SIZE + 32
             /\ \A i \in 1..Len(recognised) : recognised[i] \in RequestedSlots(request)]_vars

\* C29: calculate_total_sample_rate returns the exact arithmetic sum for a list of any
\* length, without a 16-bit wrap, so validate_waveform_set, and with it
\* request_waveforms, rejects every list whose true total exceeds 600, totals above
\* 65535 included.
C29_ExactTotal ==
    reqCall.op = "request_waveforms" =>
        LET waveforms == filter_map_names(reqCall.names)
            sum == TrueTotalRate(reqCall.names)
        IN /\ \A overflow_checks \in BOOLEAN :
                /\ calculate_total_sample_rate(waveforms, overflow_checks)
                      = [panic |-> FALSE, total |-> sum]
                /\ sum > MAX_TOTAL_SAMPLE_RATE =>
                      validate_waveform_set(waveforms, overflow_checks) = "Err"
           /\ sum > MAX_TOTAL_SAMPLE_RATE => reqRet = "Err"

=============================================================================
